---- MODULE Spec2Model ----
(***************************************************************************)
(* The filter modules of server/modules/filter: the Top-N latency tracker  *)
(* (topfilter.c), the consistent-critical-read hysteresis filter           *)
(* (ccrfilter.c), the query logger (qlafilter.c) and the counting test     *)
(* filter (testfilter.c).  One filter instance with one session at a time  *)
(* (the first session attached to the instance); the host calls            *)
(* newSession, setDownstream, setUpstream, routeQuery, clientReply,        *)
(* closeSession and freeSession on the single worker thread that owns the  *)
(* connection.                                                             *)
(* SpecCreate is createInstance on the parameters and options of a filter  *)
(* section; SpecAttach is newSession called by several worker threads on   *)
(* one logger, Top-N or test instance; SpecWire is the hysteresis filter   *)
(* with its entry points called in any order, SpecCcrClock the same filter *)
(* on a clock that reads less than the window, SpecCcrThreads two of its   *)
(* sessions on two threads; SpecIdentity is the logger and the Top-N       *)
(* filter attached by clients whose address or user may be unknown; and    *)
(* SpecCli is the session list of the debug CLI router                     *)
(* (server/modules/routing/testroute.c).                                   *)
(***************************************************************************)
EXTENDS Integers, Sequences, FiniteSets, Bags, TLC

VARIABLES
    filter,   \* which module's FILTER_OBJECT this instance belongs to
    inst,     \* the instance structure (TOPN_INSTANCE, CCR_INSTANCE, ...)
    sess,     \* the session structure (TOPN_SESSION, CCR_SESSION, ...)
    life,     \* where the session is in its life: none/open/closed/freed
    now,      \* the wall clock read by gettimeofday() and time()
    down,     \* the calls received by the downstream routeQuery, in order
    up,       \* the calls received by the upstream clientReply, in order
    files,    \* the output files: file index -> the lines written to it
    fault,    \* "none", or what an out-of-bounds access did to the process
    calls,    \* history: how many routeQuery/clientReply calls the session got
    hist,     \* history: what the session has seen (per filter, see below)
    last      \* history: the inputs and the outcome of the latest call

vars == <<filter, inst, sess, life, now, down, up, files, fault, calls, hist, last>>

(***************************************************************************)
(* Bounds of the model.                                                    *)
(***************************************************************************)
MaxTopN == 2        \* the configured count of the Top-N filter is 0..MaxTopN
MaxCalls == 3       \* routeQuery calls per session
MaxTicks == 3       \* clock steps of the Top-N runs, half a second each
MaxCount == 2       \* the configured count of the hysteresis filter is -1..MaxCount
MaxStatements == 4  \* routeQuery calls per session of the hysteresis filter
MaxThreads == 2     \* worker threads that attach sessions to one instance
MaxParams == 3      \* parameters in the filter section handed to createInstance

NULL == "NULL"

USEC_PER_SEC == 1000000

\* The clock steps between two calls: nothing measurable apart from these.
TickSteps == {[tv_sec |-> 0, tv_usec |-> 500000]}

\* The statements a client sends, as the text modutil_get_SQL extracts.
TopSql == {"SELECT", "INSERT"}
\* The clients that connect: <<remote address, user name>>.
Clients == {<<"h1", "u1">>, <<"h2", "u2">>}

Min(S) == CHOOSE x \in S : \A y \in S : x <= y

(***************************************************************************)
(* struct timeval and the <sys/time.h> macros used by topfilter.c          *)
(***************************************************************************)
tv(s, u) == [tv_sec |-> s, tv_usec |-> u]

timersub(a, b) ==
    IF a.tv_usec - b.tv_usec < 0
    THEN tv(a.tv_sec - b.tv_sec - 1, a.tv_usec - b.tv_usec + USEC_PER_SEC)
    ELSE tv(a.tv_sec - b.tv_sec, a.tv_usec - b.tv_usec)

\* Mutant: the second carried over from the microseconds is lost.
timeradd_nocarry(a, b) ==
    tv(a.tv_sec + b.tv_sec, (a.tv_usec + b.tv_usec) % USEC_PER_SEC)

timeradd(a, b) ==
    IF a.tv_usec + b.tv_usec >= USEC_PER_SEC
    THEN tv(a.tv_sec + b.tv_sec + 1, a.tv_usec + b.tv_usec - USEC_PER_SEC)
    ELSE tv(a.tv_sec + b.tv_sec, a.tv_usec + b.tv_usec)

\* The words of a statement.  The statements of the model are single words,
\* but for one that has blanks around and between its two words.
Words(s) == IF s = " INSERT  1 " THEN {"INSERT", "1"} ELSE {s}

\* POSIX regexec on a compiled pattern: 0 on a match.  The patterns of the
\* model are single words, found in a statement when it has the word.
REG_NOMATCH == 1
regexec(re, s) == IF re \in Words(s) THEN 0 ELSE REG_NOMATCH

\* skygw_utils: runs of white space become one blank; the white space at both
\* ends is cut off.
squeeze_whitespace(s) == IF s = " INSERT  1 " THEN " INSERT 1 " ELSE s

trim(s) == IF s = " INSERT 1 " THEN "INSERT 1" ELSE s

\* strcmp: 0 when equal.
strcmp(a, b) == IF a = b THEN 0 ELSE 1


(***************************************************************************)
(* The chain neighbours.  A call of my_session->down.routeQuery or of      *)
(* my_session->up.clientReply is recorded in the neighbour's log with the  *)
(* number of the message (the n-th message handed to the session) and, on  *)
(* the request path, whether a route-to-master hint hangs on the buffer.   *)
(***************************************************************************)
\* Mutant: a session that is not active returns without the call.
DownstreamCall_active(log, id, hint) ==
    IF filter \in {"qla", "topn"} /\ ~ sess.active
    THEN log
    ELSE Append(log, [id |-> id, hint |-> hint])

DownstreamCall(log, id, hint) == Append(log, [id |-> id, hint |-> hint])

UpstreamCall(log, id) == Append(log, id)

NoSession == [none |-> TRUE]

NoCall == [op |-> "none"]

NoCalls == [rq |-> 0, cr |-> 0, ticks |-> 0]

\* What the client sends: a COM_QUERY packet carrying a statement, or some
\* other packet, for which modutil_get_SQL returns NULL.
NonSql == [is_sql |-> FALSE, sql |-> NULL]

Packet(text) == [is_sql |-> TRUE, sql |-> text]

modutil_is_SQL(queue) == queue.is_sql

modutil_get_SQL(queue) == IF queue.is_sql THEN queue.sql ELSE NULL

(***************************************************************************)
(* topfilter.c                                                             *)
(***************************************************************************)
TopMessages == {NonSql} \cup {Packet(t) : t \in TopSql}

\* The source and user restrictions an instance is configured with: none, or
\* both (the first client passes them, the second does not).
Restrictions == {<<NULL, NULL>>, <<"h1", "u1">>}

\* createInstance with a filebase and patterns that compile.
TopInstances ==
    {[sessions |-> 0, topN |-> n, source |-> r[1], user |-> r[2],
      match |-> m, exclude |-> x] :
        n \in 0..MaxTopN, r \in Restrictions,
        m \in {NULL, "INSERT"}, x \in {NULL, "INSERT"}}

TOPNQ(duration, sql) == [duration |-> duration, sql |-> sql]

\* The activity test of newSession.
topn_active(i, clientHost, userName) ==
    ~ \/ (i.source # NULL /\ clientHost # NULL /\ strcmp(clientHost, i.source) # 0)
      \/ (i.user # NULL /\ userName # NULL /\ strcmp(userName, i.user) # 0)

topn_newSession_from(client) ==
    /\ filter = "topn"
    /\ fault = "none"
    /\ life = "none"
    /\ LET remote == client[1]
           user   == client[2]
       IN sess' = [down         |-> NULL,
                   up           |-> NULL,
                   active       |-> topn_active(inst, remote, user),
                   clientHost   |-> remote,
                   userName     |-> user,
                   \* written twice; the second sprintf reads the counter
                   \* after atomic_add
                   filename     |-> inst.sessions + 1,
                   start        |-> tv(0, 0),
                   current      |-> NULL,
                   top          |-> [i \in 1..inst.topN |-> TOPNQ(tv(0, 0), NULL)],
                   n_statements |-> 0,
                   total        |-> tv(0, 0),
                   connect      |-> now,
                   disconnect   |-> tv(0, 0)]
    /\ inst' = [inst EXCEPT !.sessions = @ + 1]
    /\ life' = "open"
    /\ down' = <<>>
    /\ up' = <<>>
    /\ calls' = [NoCalls EXCEPT !.ticks = calls.ticks]
    /\ hist' = [durations |-> EmptyBag]
    /\ last' = [op |-> "newSession"]
    /\ UNCHANGED <<filter, now, files, fault>>

topn_newSession == \E client \in Clients : topn_newSession_from(client)

topn_setDownstream ==
    /\ filter = "topn"
    /\ fault = "none"
    /\ life = "open"
    /\ sess.down = NULL
    /\ sess' = [sess EXCEPT !.down = "downstream"]
    /\ UNCHANGED <<filter, inst, life, now, down, up, files, fault, calls, hist, last>>

topn_setUpstream ==
    /\ filter = "topn"
    /\ fault = "none"
    /\ life = "open"
    /\ sess.up = NULL
    /\ sess' = [sess EXCEPT !.up = "upstream"]
    /\ UNCHANGED <<filter, inst, life, now, down, up, files, fault, calls, hist, last>>

\* The statement is recorded as the pending one.
topn_tracked(i, s, queue) ==
    /\ s.active
    /\ modutil_get_SQL(queue) # NULL
    /\ (i.match = NULL \/ regexec(i.match, modutil_get_SQL(queue)) = 0)
    /\ (i.exclude = NULL \/ regexec(i.exclude, modutil_get_SQL(queue)) # 0)

\* Mutant: a statement that is pending stays, and the new one is dropped.
topn_routeQuery_keep_first(queue) ==
    /\ filter = "topn"
    /\ fault = "none"
    /\ life = "open"
    /\ sess.down # NULL
    /\ sess.up # NULL
    /\ calls.rq < MaxCalls
    /\ sess' = IF topn_tracked(inst, sess, queue)
               THEN IF sess.current # NULL
                    THEN [sess EXCEPT !.n_statements = @ + 1]
                    ELSE [sess EXCEPT !.n_statements = @ + 1,
                                      !.start = now,
                                      !.current = modutil_get_SQL(queue)]
               ELSE sess
    /\ down' = DownstreamCall(down, calls.rq + 1, FALSE)
    /\ calls' = [calls EXCEPT !.rq = @ + 1]
    /\ last' = IF topn_tracked(inst, sess, queue)
               THEN [op |-> "routeQuery", tracked |-> TRUE, sql |-> queue.sql, at |-> now]
               ELSE [op |-> "routeQuery", tracked |-> FALSE]
    /\ UNCHANGED <<filter, inst, life, now, up, files, fault, hist>>

topn_routeQuery(queue) ==
    /\ filter = "topn"
    /\ fault = "none"
    /\ life = "open"
    /\ sess.down # NULL
    /\ sess.up # NULL
    /\ calls.rq < MaxCalls
    /\ sess' = IF topn_tracked(inst, sess, queue)
               THEN [sess EXCEPT !.n_statements = @ + 1,
                                 !.start = now,
                                 !.current = modutil_get_SQL(queue)]
               ELSE sess
    /\ down' = DownstreamCall(down, calls.rq + 1, FALSE)
    /\ calls' = [calls EXCEPT !.rq = @ + 1]
    /\ last' = IF topn_tracked(inst, sess, queue)
               THEN [op |-> "routeQuery", tracked |-> TRUE, sql |-> queue.sql, at |-> now]
               ELSE [op |-> "routeQuery", tracked |-> FALSE]
    /\ UNCHANGED <<filter, inst, life, now, up, files, fault, hist>>

\* Mutant: the microseconds are left out of the comparison.
tv_greater_sec(a, b) == a.tv_sec > b.tv_sec

\* a > b for two durations, as spelled out in clientReply.
tv_greater(a, b) ==
    \/ a.tv_sec > b.tv_sec
    \/ (a.tv_sec = b.tv_sec /\ a.tv_usec > b.tv_usec)

\* Mutant: the operands are swapped, which sorts ascending.
cmp_topn_ascending(a, b) ==
    IF b.duration.tv_sec = a.duration.tv_sec
    THEN a.duration.tv_usec - b.duration.tv_usec
    ELSE a.duration.tv_sec - b.duration.tv_sec

cmp_topn(a, b) ==
    IF b.duration.tv_sec = a.duration.tv_sec
    THEN b.duration.tv_usec - a.duration.tv_usec
    ELSE b.duration.tv_sec - a.duration.tv_sec

\* qsort(top, topN, sizeof(TOPNQ *), cmp_topn): some rearrangement of the
\* array that is in order by cmp_topn; the order of elements that compare
\* equal is unspecified, so every such rearrangement is a possible result.
qsort(top) ==
    LET n == Len(top)
        perms == {p \in [1..n -> 1..n] : \A i, j \in 1..n : i # j => p[i] # p[j]}
    IN  {q \in {[i \in 1..n |-> top[p[i]]] : p \in perms} :
            \A i, j \in 1..n : i < j => cmp_topn(q[i], q[j]) <= 0}

\* Mutant: a full ranking grows by one entry instead of losing its last.
topn_insert_append(top, topN, current, diff) ==
    LET free == {i \in 1..Len(top) : top[i].sql = NULL}
    IN  IF free # {}
        THEN [top |-> [top EXCEPT ![Min(free)] = TOPNQ(diff, current)], inserted |-> 1]
        ELSE IF tv_greater(diff, top[Len(top)].duration)
        THEN [top |-> Append(top, TOPNQ(diff, current)), inserted |-> 1]
        ELSE [top |-> top, inserted |-> 0]

\* Mutant: a full ranking takes the new entry without comparing durations.
topn_insert_always(top, topN, current, diff) ==
    LET free == {i \in 1..topN : top[i].sql = NULL}
    IN  IF free # {}
        THEN [top |-> [top EXCEPT ![Min(free)] = TOPNQ(diff, current)], inserted |-> 1]
        ELSE [top |-> [top EXCEPT ![topN] = TOPNQ(diff, current)], inserted |-> 1]

\* Mutant: a full ranking takes the longer statement in its first slot.
topn_insert_first(top, topN, current, diff) ==
    LET free == {i \in 1..topN : top[i].sql = NULL}
    IN  IF free # {}
        THEN [top |-> [top EXCEPT ![Min(free)] = TOPNQ(diff, current)], inserted |-> 1]
        ELSE IF tv_greater(diff, top[topN].duration)
        THEN [top |-> [top EXCEPT ![1] = TOPNQ(diff, current)], inserted |-> 1]
        ELSE [top |-> top, inserted |-> 0]

\* The insertion of clientReply for topN >= 1: the first free slot, else the
\* last slot when the new duration is greater than its duration.
topn_insert(top, topN, current, diff) ==
    LET free == {i \in 1..topN : top[i].sql = NULL}
    IN  IF free # {}
        THEN [top |-> [top EXCEPT ![Min(free)] = TOPNQ(diff, current)], inserted |-> 1]
        ELSE IF tv_greater(diff, top[topN].duration)
        THEN [top |-> [top EXCEPT ![topN] = TOPNQ(diff, current)], inserted |-> 1]
        ELSE [top |-> top, inserted |-> 0]

\* The indices of top that clientReply reads or writes, as C counts them:
\* the loop goes up to the first free slot; when there is none, the
\* comparison after the loop is with top[topN - 1].
topn_slots(top, topN) ==
    LET free == {i \in 1..topN : top[i].sql = NULL}
    IN  IF free # {}
        THEN 0..(Min(free) - 1)
        ELSE (0..(topN - 1)) \cup {topN - 1}

\* clientReply with no pending statement: the reply is passed on.
topn_clientReply_idle ==
    /\ filter = "topn"
    /\ fault = "none"
    /\ life = "open"
    /\ sess.down # NULL
    /\ sess.up # NULL
    /\ calls.cr < MaxCalls
    /\ sess.current = NULL
    /\ up' = UpstreamCall(up, calls.cr + 1)
    /\ calls' = [calls EXCEPT !.cr = @ + 1]
    /\ last' = [op |-> "clientReply", pending |-> NULL]
    /\ UNCHANGED <<filter, inst, sess, life, now, down, files, fault, hist>>

\* Mutant: the pending statement stays after the reply.
topn_clientReply_pending_kept ==
    /\ filter = "topn"
    /\ fault = "none"
    /\ life = "open"
    /\ sess.down # NULL
    /\ sess.up # NULL
    /\ calls.cr < MaxCalls
    /\ sess.current # NULL
    /\ inst.topN > 0
    /\ LET diff == timersub(now, sess.start)
           ins  == topn_insert(sess.top, inst.topN, sess.current, diff)
       IN  /\ \E q \in (IF ins.inserted = 1 THEN qsort(ins.top) ELSE {ins.top}) :
                 sess' = [sess EXCEPT !.total = timeradd(@, diff),
                                      !.top = q]
           /\ hist' = [durations |-> hist.durations (+) SetToBag({diff})]
           /\ last' = [op |-> "clientReply", pending |-> sess.current,
                       diff |-> diff, inserted |-> ins.inserted,
                       full |-> \A i \in 1..inst.topN : sess.top[i].sql # NULL,
                       slots |-> topn_slots(sess.top, inst.topN)]
    /\ up' = UpstreamCall(up, calls.cr + 1)
    /\ calls' = [calls EXCEPT !.cr = @ + 1]
    /\ UNCHANGED <<filter, inst, life, now, down, files, fault>>

\* clientReply with a pending statement and at least one slot.
topn_clientReply_pending ==
    /\ filter = "topn"
    /\ fault = "none"
    /\ life = "open"
    /\ sess.down # NULL
    /\ sess.up # NULL
    /\ calls.cr < MaxCalls
    /\ sess.current # NULL
    /\ inst.topN > 0
    /\ LET diff == timersub(now, sess.start)
           ins  == topn_insert(sess.top, inst.topN, sess.current, diff)
       IN  /\ \E q \in (IF ins.inserted = 1 THEN qsort(ins.top) ELSE {ins.top}) :
                 sess' = [sess EXCEPT !.total = timeradd(@, diff),
                                      !.top = q,
                                      !.current = NULL]
           /\ hist' = [durations |-> hist.durations (+) SetToBag({diff})]
           /\ last' = [op |-> "clientReply", pending |-> sess.current,
                       diff |-> diff, inserted |-> ins.inserted,
                       full |-> \A i \in 1..inst.topN : sess.top[i].sql # NULL,
                       slots |-> topn_slots(sess.top, inst.topN)]
    /\ up' = UpstreamCall(up, calls.cr + 1)
    /\ calls' = [calls EXCEPT !.cr = @ + 1]
    /\ UNCHANGED <<filter, inst, life, now, down, files, fault>>

\* clientReply with a pending statement and topN = 0: the loop over the slots
\* is empty and top[topN - 1] is top[-1], an element before the array that
\* calloc(topN + 1, ...) returned.  The read is out of bounds: the process may
\* die on the dereference of whatever lies there ("crashed"), the comparison
\* may come out false on it ("skipped": the pending text is freed), or true,
\* and then the text and the duration are written through it ("corrupted").
topn_clientReply_noslot ==
    /\ filter = "topn"
    /\ fault = "none"
    /\ life = "open"
    /\ sess.down # NULL
    /\ sess.up # NULL
    /\ calls.cr < MaxCalls
    /\ sess.current # NULL
    /\ inst.topN = 0
    /\ LET diff == timersub(now, sess.start)
       IN  \E outcome \in {"crashed", "skipped", "corrupted"} :
              /\ fault' = IF outcome = "skipped" THEN fault ELSE outcome
              /\ sess' = IF outcome = "crashed"
                         THEN [sess EXCEPT !.total = timeradd(@, diff)]
                         ELSE [sess EXCEPT !.total = timeradd(@, diff),
                                           !.current = NULL]
              /\ up' = IF outcome = "crashed" THEN up
                       ELSE UpstreamCall(up, calls.cr + 1)
              /\ hist' = [durations |-> hist.durations (+) SetToBag({diff})]
              /\ last' = [op |-> "clientReply", pending |-> sess.current,
                          diff |-> diff, inserted |-> 0, full |-> TRUE,
                          slots |-> topn_slots(sess.top, inst.topN)]
    /\ calls' = [calls EXCEPT !.cr = @ + 1]
    /\ UNCHANGED <<filter, inst, life, now, down, files>>

\* The report closeSession writes: "%10.3f" of the milliseconds of each
\* ranked entry, and the totals.
topn_report(i, s) ==
    [topN       |-> i.topN,
     entries    |-> [k \in 1..i.topN |->
                        IF s.top[k].sql # NULL
                        THEN [msec |-> s.top[k].duration.tv_sec * 1000
                                       + s.top[k].duration.tv_usec \div 1000,
                              sql  |-> s.top[k].sql]
                        ELSE [msec |-> 0, sql |-> NULL]],
     clientHost |-> s.clientHost,
     userName   |-> s.userName,
     statements |-> IF s.n_statements # 0 THEN s.n_statements ELSE 1,
     total_msec |-> s.total.tv_sec * 1000 + s.total.tv_usec \div 1000]

\* Mutant: the report is written a second time behind the first.
topn_closeSession_twice ==
    /\ filter = "topn"
    /\ fault # "crashed"
    /\ life = "open"
    /\ sess.down # NULL
    /\ sess.up # NULL
    /\ sess' = [sess EXCEPT !.disconnect = now]
    /\ \E fp \in {NULL, "fp"} :
          /\ files' = IF fp # NULL
                      THEN [f \in DOMAIN files \cup {sess.filename} |->
                               IF f = sess.filename
                               THEN <<topn_report(inst, sess), topn_report(inst, sess)>>
                               ELSE files[f]]
                      ELSE files
          /\ last' = [op |-> "closeSession", fp |-> fp]
    /\ life' = "closed"
    /\ UNCHANGED <<filter, inst, now, down, up, fault, calls, hist>>

\* closeSession: fopen(filename, "w") may fail, and then nothing is written.
topn_closeSession ==
    /\ filter = "topn"
    /\ fault # "crashed"
    /\ life = "open"
    /\ sess.down # NULL
    /\ sess.up # NULL
    /\ sess' = [sess EXCEPT !.disconnect = now]
    /\ \E fp \in {NULL, "fp"} :
          /\ files' = IF fp # NULL
                      THEN [f \in DOMAIN files \cup {sess.filename} |->
                               IF f = sess.filename THEN <<topn_report(inst, sess)>>
                               ELSE files[f]]
                      ELSE files
          /\ last' = [op |-> "closeSession", fp |-> fp]
    /\ life' = "closed"
    /\ UNCHANGED <<filter, inst, now, down, up, fault, calls, hist>>

topn_freeSession ==
    /\ filter = "topn"
    /\ fault # "crashed"
    /\ life = "closed"
    /\ sess' = NoSession
    /\ life' = "freed"
    /\ last' = [op |-> "freeSession"]
    /\ UNCHANGED <<filter, inst, now, down, up, files, fault, calls, hist>>

\* Time passes between two calls.
topn_tick ==
    /\ filter = "topn"
    /\ fault # "crashed"
    /\ life = "open"
    /\ calls.ticks < MaxTicks
    /\ \E d \in TickSteps : now' = timeradd(now, d)
    /\ calls' = [calls EXCEPT !.ticks = @ + 1]
    /\ UNCHANGED <<filter, inst, sess, life, down, up, files, fault, hist, last>>

InitCommon ==
    /\ sess = NoSession
    /\ life = "none"
    /\ down = <<>>
    /\ up = <<>>
    /\ files = <<>>
    /\ fault = "none"
    /\ calls = NoCalls
    /\ last = NoCall

InitTop ==
    /\ filter = "topn"
    /\ inst \in TopInstances
    /\ now = tv(0, 0)
    /\ hist = [durations |-> EmptyBag]
    /\ InitCommon

NextTop ==
    \/ topn_newSession
    \/ topn_setDownstream
    \/ topn_setUpstream
    \/ \E queue \in TopMessages : topn_routeQuery(queue)
    \/ topn_clientReply_idle
    \/ topn_clientReply_pending
    \/ topn_clientReply_noslot
    \/ topn_closeSession
    \/ topn_freeSession
    \/ topn_tick

SpecTop == InitTop /\ [][NextTop]_vars


(***************************************************************************)
(* Properties of the Top-N session                                         *)
(***************************************************************************)
Attached == life \in {"open", "closed"}

HasSql(e) == e.sql # NULL

\* A duration in microseconds, and the order of durations.
Micros(d) == d.tv_sec * 1000000 + d.tv_usec

Longer(a, b) == Micros(a) > Micros(b)

\* The ranked entries: the slots that hold a statement text, in slot order.
Ranked(top) == SelectSeq(top, HasSql)

DurationBag(entries) ==
    LET ds == {entries[i].duration : i \in DOMAIN entries}
    IN  [d \in ds |-> Cardinality({i \in DOMAIN entries : entries[i].duration = d})]

\* C2: every reply handed to clientReply of a Top-N session has been passed
\* to the upstream neighbour exactly once, in the order of arrival.
C2_RepliesForwarded ==
    filter = "topn" => up = [i \in 1..calls.cr |-> i]

\* C3: the number of ranked entries of a Top-N session is at most the
\* configured N.
C3_RankedAtMostN ==
    (filter = "topn" /\ Attached) => Len(Ranked(sess.top)) <= inst.topN

C3_Witness ==
    /\ filter = "topn" /\ Attached
    /\ last.op = "clientReply" /\ last.pending # NULL
    /\ inst.topN >= 1
    /\ last.full /\ last.inserted = 1

\* C4: the ranked entries read in slot order have non-increasing durations,
\* seconds compared first and microseconds next.
C4_RankedDescending ==
    (filter = "topn" /\ Attached) =>
        LET r == Ranked(sess.top)
        IN  \A i, j \in DOMAIN r :
               i < j => ~ Longer(r[j].duration, r[i].duration)

\* The latest reply put its statement in front of an entry of the same second
\* and fewer microseconds.
C4_Witness ==
    /\ filter = "topn" /\ Attached
    /\ last.op = "clientReply" /\ last.pending # NULL /\ last.inserted = 1
    /\ LET r == Ranked(sess.top)
       IN  /\ Len(r) >= 2
           /\ r[1].duration = last.diff
           /\ r[2].duration.tv_sec = last.diff.tv_sec
           /\ r[2].duration.tv_usec < last.diff.tv_usec

\* C5: with N >= 1 the durations held in the ranking are the N largest
\* durations measured so far, as a multiset: all of them while fewer than N
\* were measured, and otherwise N of them none of which is smaller than one
\* that is left out.
C5_RankingIsTopN ==
    (filter = "topn" /\ Attached /\ inst.topN >= 1) =>
        LET held == DurationBag(Ranked(sess.top))
            rest == hist.durations (-) held
            k    == IF BagCardinality(hist.durations) < inst.topN
                    THEN BagCardinality(hist.durations) ELSE inst.topN
        IN  /\ held \sqsubseteq hist.durations
            /\ BagCardinality(held) = k
            /\ \A d \in BagToSet(rest), e \in BagToSet(held) : ~ Longer(d, e)

\* More durations were measured than the ranking holds, the latest one took
\* the place of the smallest, and a smaller one is left out.
C5_Witness ==
    /\ filter = "topn" /\ Attached /\ inst.topN >= 2
    /\ last.op = "clientReply" /\ last.pending # NULL
    /\ last.full /\ last.inserted = 1
    /\ BagCardinality(hist.durations) > inst.topN
    /\ sess.n_statements = calls.cr
    /\ \E d \in BagToSet(hist.durations) :
          Longer(sess.top[inst.topN].duration, d)

\* C6: a reply whose duration is smaller than that of the last entry of a full
\* ranking leaves the ranking as it was: same entries, same order, same texts.
C6_SmallerLeavesRanking ==
    [][(/\ filter = "topn" /\ life = "open" /\ inst.topN >= 1
        /\ calls'.cr = calls.cr + 1
        /\ sess.current # NULL
        /\ \A i \in 1..inst.topN : sess.top[i].sql # NULL
        /\ Longer(sess.top[inst.topN].duration, tv(0, Micros(now) - Micros(sess.start))))
       => sess'.top = sess.top]_vars

C6_Witness ==
    /\ filter = "topn" /\ Attached /\ inst.topN >= 1
    /\ last.op = "clientReply" /\ last.pending # NULL
    /\ last.full /\ last.inserted = 0
    /\ Longer(sess.top[inst.topN].duration, last.diff)


\* C11: a logger or Top-N session that is not active has no effect of its own
\* from attach to close: no output file is created or written, and the
\* ranking, the pending statement and the statistics stay as newSession left
\* them.  Here for the Top-N session, whose closeSession writes the report.
C11_InactiveNoEffects ==
    (filter = "topn" /\ Attached /\ ~ sess.active) =>
        /\ sess.filename \notin DOMAIN files
        /\ sess.current = NULL
        /\ sess.n_statements = 0
        /\ sess.total = tv(0, 0)
        /\ Ranked(sess.top) = <<>>


\* C39: clientReply of a session with a pending statement reads and writes
\* top at the indices 0..N-1 only, for N = 0 too.
C39_SlotsInRange ==
    (filter = "topn" /\ last.op = "clientReply" /\ last.pending # NULL) =>
        last.slots \subseteq 0..(inst.topN - 1)

\* The same for the instances with at least one slot.
SlotsInRangeFromOne ==
    (filter = "topn" /\ inst.topN >= 1) => C39_SlotsInRange

\* C23: the statement counter of a Top-N session is the number of replies
\* that found a pending statement: a tracked request counts when it is
\* answered, not before, and not at all when its pending text was overwritten.
C23_CountsAnswered ==
    (filter = "topn" /\ Attached) =>
        sess.n_statements = BagCardinality(hist.durations)

\* C24: the number of statements in the report closeSession writes is the
\* statement counter of the session, 0 included.
C24_ReportCountsStatements ==
    (filter = "topn" /\ life = "closed" /\ sess.filename \in DOMAIN files) =>
        files[sess.filename][1].statements = sess.n_statements

SeqBag(seq) ==
    LET es == {seq[i] : i \in DOMAIN seq}
    IN  [e \in es |-> Cardinality({i \in DOMAIN seq : seq[i] = e})]

\* A number of microseconds as seconds and microseconds.
OfMicros(n) == tv(n \div 1000000, n % 1000000)

\* A reply arrives for a pending statement of an open session with slots.
ReplyToPending ==
    /\ filter = "topn" /\ life = "open" /\ inst.topN >= 1
    /\ calls'.cr = calls.cr + 1
    /\ sess.current # NULL

FullRanking == \A i \in 1..inst.topN : sess.top[i].sql # NULL

\* C27: when the ranking is full and the duration of the reply is greater than
\* that of the entry in the last slot, that entry gives way to the new
\* duration and text and the other entries are all kept; when the two
\* durations are equal the ranking stays as it is and the pending text goes.
C27_ReplacesNth ==
    [][(ReplyToPending /\ FullRanking) =>
          LET d   == Micros(now) - Micros(sess.start)
              nth == sess.top[inst.topN]
          IN  /\ d > Micros(nth.duration) =>
                    SeqBag(sess'.top) =
                        (SeqBag(sess.top) (-) SetToBag({nth}))
                            (+) SetToBag({TOPNQ(OfMicros(d), sess.current)})
              /\ d = Micros(nth.duration) =>
                    (sess'.top = sess.top /\ sess'.current = NULL)]_vars

\* A ranking of two entries of different texts was full, and the reply put
\* its statement in the place of the entry in the last slot.
C27_Witness ==
    /\ filter = "topn" /\ Attached /\ inst.topN = 2
    /\ last.op = "clientReply" /\ last.pending # NULL
    /\ last.full /\ last.inserted = 1
    /\ calls.cr = 3
    /\ \E i \in 1..2 : sess.top[i] = TOPNQ(last.diff, last.pending)
    /\ sess.top[1].sql # sess.top[2].sql
    /\ Longer(sess.top[1].duration, sess.top[2].duration)

\* C28: after a clientReply that returned, the session has no pending
\* statement, so a reply that follows a reply changes neither the ranking nor
\* the total.
C28_PendingCleared ==
    [][(filter = "topn" /\ life = "open" /\ calls'.cr = calls.cr + 1
            /\ fault' # "crashed") =>
          /\ sess'.current = NULL
          /\ last.op = "clientReply" =>
                (sess'.top = sess.top /\ sess'.total = sess.total)]_vars

\* One request, its reply, which was ranked, and another reply.
C28_Witness ==
    /\ filter = "topn" /\ Attached
    /\ last.op = "clientReply" /\ last.pending = NULL
    /\ calls.rq = 1 /\ calls.cr = 2
    /\ Len(Ranked(sess.top)) = 1
    /\ Micros(sess.total) > 0
    /\ sess.current = NULL

\* C29: the reply that follows a tracked request is timed from that request
\* and ranked with its text, also when an earlier tracked request was never
\* answered: whatever the reply adds to the ranking is the latest request's
\* duration and text.
C29_LatestRequestWins ==
    [][(ReplyToPending /\ last.op = "routeQuery" /\ last.tracked) =>
          LET new == TOPNQ(OfMicros(Micros(now) - Micros(last.at)), last.sql)
          IN  /\ (SeqBag(Ranked(sess'.top)) (-) SeqBag(Ranked(sess.top)))
                     \sqsubseteq SetToBag({new})
              /\ ~ FullRanking =>
                     SeqBag(Ranked(sess'.top)) =
                         SeqBag(Ranked(sess.top)) (+) SetToBag({new})]_vars

\* Two tracked requests and one reply, half a second after the second
\* request and a second after the session began: one entry, of half a second.
C29_Witness ==
    /\ filter = "topn" /\ Attached /\ inst.topN >= 1
    /\ last.op = "clientReply" /\ last.pending # NULL
    /\ sess.n_statements = 2 /\ calls.rq = 2 /\ calls.cr = 1
    /\ now = tv(1, 0)
    /\ Len(Ranked(sess.top)) = 1
    /\ sess.top[1] = TOPNQ(tv(0, 500000), last.pending)
    /\ sess.total = tv(0, 500000)

\* The sum of the durations of a bag, in microseconds.
RECURSIVE BagSum(_)
BagSum(B) ==
    IF DOMAIN B = {} THEN 0
    ELSE LET d == CHOOSE x \in DOMAIN B : TRUE
         IN  Micros(d) * B[d] + BagSum([x \in DOMAIN B \ {d} |-> B[x]])

\* C30: the total of a Top-N session is the sum of the durations of the
\* replies that found a pending statement, ranked or not, in seconds and
\* microseconds below a million.
C30_TotalIsSum ==
    (filter = "topn" /\ Attached) =>
        /\ Micros(sess.total) = BagSum(hist.durations)
        /\ sess.total.tv_usec < 1000000

\* A reply found nothing pending, one was ranked, and the latest was too
\* short for the full ranking; the total is a second and a half.
C30_Witness ==
    /\ filter = "topn" /\ Attached /\ inst.topN = 1
    /\ last.op = "clientReply" /\ last.pending # NULL
    /\ last.full /\ last.inserted = 0
    /\ calls.cr = 3 /\ BagCardinality(hist.durations) = 2
    /\ sess.top[1].duration = tv(1, 0)
    /\ sess.total = tv(1, 500000)


(***************************************************************************)
(* ccrfilter.c                                                             *)
(***************************************************************************)
CCR_DEFAULT_TIME == 60

\* qc_query_op_t: a bit per operation, no bit for an operation the
\* classifier does not know.  A set of bits stands for the mask.
QUERY_OP_UNDEFINED == {}
QUERY_OP_SELECT == {"select"}
QUERY_OP_UPDATE == {"update"}
QUERY_OP_INSERT == {"insert"}

CcrSql == {"SELECT", "INSERT", "UPDATE", "SHOW"}

CcrMessages == {NonSql} \cup {Packet(t) : t \in CcrSql}

\* The classifier's answer for the statements of the model.
qc_get_operation(queue) ==
    CASE queue.sql = "SELECT" -> QUERY_OP_SELECT
      [] queue.sql = "INSERT" -> QUERY_OP_INSERT
      [] queue.sql = "UPDATE" -> QUERY_OP_UPDATE
      [] OTHER -> QUERY_OP_UNDEFINED

\* createInstance: count and time are whatever atoi makes of the parameters.
CcrInstances ==
    {[match |-> m, nomatch |-> x, time |-> t, count |-> c,
      stats |-> [n_add_count |-> 0, n_add_time |-> 0, n_modified |-> 0]] :
        m \in {NULL, "INSERT"}, x \in {NULL, "INSERT"},
        t \in {0, CCR_DEFAULT_TIME}, c \in (-1)..MaxCount}

\* The seconds the clock moves between two calls.
CcrTickSteps == {tv(1, 0), tv(CCR_DEFAULT_TIME, 0)}

difftime(a, b) == a - b

\* (qc_get_operation(queue) & ~QUERY_OP_SELECT) != 0
ccr_modifying(queue) == (qc_get_operation(queue) \ QUERY_OP_SELECT) # {}

\* Mutant: the ignore pattern is not consulted.
ccr_accepts_match_only(i, sql) ==
    i.match = NULL \/ (i.match # NULL /\ regexec(i.match, sql) = 0)

\* The ignore and the match pattern let the statement through.
ccr_accepts(i, sql) ==
    /\ (i.nomatch = NULL \/ (i.nomatch # NULL /\ regexec(i.nomatch, sql) # 0))
    /\ (i.match = NULL \/ (i.match # NULL /\ regexec(i.match, sql) = 0))

\* Mutant: a hint is added while hints_left is not negative.
ccr_count_rule_ge(s) == s.hints_left >= 0

ccr_count_rule(s) == s.hints_left > 0

\* Mutant: the window is closed the second after it should be.
ccr_time_rule_le(i, s, t) == difftime(t, s.last_modification) <= i.time

\* Mutant: the time rule is never applied.
ccr_time_rule_off(i, s, t) == FALSE

ccr_time_rule(i, s, t) == difftime(t, s.last_modification) < i.time

\* Mutant: the count rule is tried before the operation is looked at.
ccr_branch_count_first(i, s, queue, t) ==
    IF ~ modutil_is_SQL(queue) THEN "pass"
    ELSE IF ccr_count_rule(s) THEN "count"
    ELSE IF ccr_modifying(queue)
         THEN IF modutil_get_SQL(queue) # NULL /\ ccr_accepts(i, modutil_get_SQL(queue))
              THEN "modified" ELSE "ignored"
    ELSE IF ccr_time_rule(i, s, t) THEN "time"
    ELSE "pass"

\* Mutant: the test for SQL text is left out.
ccr_branch_any_packet(i, s, queue, t) ==
    IF ccr_modifying(queue)
    THEN IF modutil_get_SQL(queue) # NULL /\ ccr_accepts(i, modutil_get_SQL(queue))
         THEN "modified" ELSE "ignored"
    ELSE IF ccr_count_rule(s) THEN "count"
    ELSE IF ccr_time_rule(i, s, t) THEN "time"
    ELSE "pass"

\* The branch routeQuery takes.
ccr_branch(i, s, queue, t) ==
    IF ~ modutil_is_SQL(queue) THEN "pass"
    ELSE IF ccr_modifying(queue)
         THEN IF modutil_get_SQL(queue) # NULL /\ ccr_accepts(i, modutil_get_SQL(queue))
              THEN "modified" ELSE "ignored"
    ELSE IF ccr_count_rule(s) THEN "count"
    ELSE IF ccr_time_rule(i, s, t) THEN "time"
    ELSE "pass"

\* History, in terms of what the client sent: a modifying statement is one
\* whose operation is known and is not a select; it is accepted when the
\* ignore pattern does not match it and the match pattern, if any, does.
Modifying(queue) ==
    queue.is_sql /\ qc_get_operation(queue) \notin {QUERY_OP_SELECT, QUERY_OP_UNDEFINED}

Accepted(i, queue) ==
    /\ Modifying(queue)
    /\ i.nomatch # queue.sql
    /\ i.match \in {NULL, queue.sql}

NoWrites == [accepted |-> 0, since |-> 0, at |-> 0]

ccr_newSession ==
    /\ filter = "ccr"
    /\ life = "none"
    /\ sess' = [down |-> NULL, hints_left |-> 0, last_modification |-> 0]
    /\ life' = "open"
    /\ down' = <<>>
    /\ calls' = [NoCalls EXCEPT !.ticks = calls.ticks]
    /\ hist' = NoWrites
    /\ last' = [op |-> "newSession"]
    /\ UNCHANGED <<filter, inst, now, up, files, fault>>

ccr_setDownstream ==
    /\ filter = "ccr"
    /\ life = "open"
    /\ sess.down = NULL
    /\ sess' = [sess EXCEPT !.down = "downstream"]
    /\ UNCHANGED <<filter, inst, life, now, down, up, files, fault, calls, hist, last>>

ccr_routeQuery(queue) ==
    /\ filter = "ccr"
    /\ life = "open"
    /\ sess.down # NULL
    /\ calls.rq < MaxStatements
    /\ LET t      == now.tv_sec
           branch == ccr_branch(inst, sess, queue, t)
           h      == IF Accepted(inst, queue)
                     THEN [accepted |-> hist.accepted + 1, since |-> 0, at |-> t]
                     ELSE IF queue.is_sql /\ ~ Modifying(queue)
                     THEN [hist EXCEPT !.since = @ + 1]
                     ELSE hist
       IN  /\ sess' = CASE branch = "modified" ->
                             [sess EXCEPT !.hints_left = inst.count,
                                          !.last_modification = t]
                        [] branch = "count" ->
                             [sess EXCEPT !.hints_left = @ - 1]
                        [] OTHER -> sess
           /\ inst' = CASE branch = "modified" ->
                             [inst EXCEPT !.stats.n_modified = @ + 1]
                        [] branch = "count" ->
                             [inst EXCEPT !.stats.n_add_count = @ + 1]
                        [] branch = "time" ->
                             [inst EXCEPT !.stats.n_add_time = @ + 1]
                        [] OTHER -> inst
           /\ down' = DownstreamCall(down, calls.rq + 1, branch \in {"count", "time"})
           /\ hist' = h
           /\ last' = [op          |-> "routeQuery",
                       is_sql      |-> queue.is_sql,
                       modifying   |-> Modifying(queue),
                       read        |-> qc_get_operation(queue) = QUERY_OP_SELECT,
                       hint        |-> branch \in {"count", "time"},
                       branch      |-> branch,
                       after_write |-> hist.accepted > 0,
                       elapsed     |-> t - hist.at,
                       left_before |-> sess.hints_left]
    /\ calls' = [calls EXCEPT !.rq = @ + 1]
    /\ UNCHANGED <<filter, life, now, up, files, fault>>

ccr_closeSession ==
    /\ filter = "ccr"
    /\ life = "open"
    /\ life' = "closed"
    /\ last' = [op |-> "closeSession"]
    /\ UNCHANGED <<filter, inst, sess, now, down, up, files, fault, calls, hist>>

ccr_freeSession ==
    /\ filter = "ccr"
    /\ life = "closed"
    /\ sess' = NoSession
    /\ life' = "freed"
    /\ last' = [op |-> "freeSession"]
    /\ UNCHANGED <<filter, inst, now, down, up, files, fault, calls, hist>>

ccr_tick ==
    /\ filter = "ccr"
    /\ life = "open"
    /\ calls.ticks < MaxTicks
    /\ \E d \in CcrTickSteps : now' = timeradd(now, d)
    /\ calls' = [calls EXCEPT !.ticks = @ + 1]
    /\ UNCHANGED <<filter, inst, sess, life, down, up, files, fault, hist, last>>

InitCcr ==
    /\ filter = "ccr"
    /\ inst \in CcrInstances
    /\ now = tv(1000, 0)
    /\ hist = NoWrites
    /\ InitCommon

NextCcr ==
    \/ ccr_newSession
    \/ ccr_setDownstream
    \/ \E queue \in CcrMessages : ccr_routeQuery(queue)
    \/ ccr_closeSession
    \/ ccr_freeSession
    \/ ccr_tick

SpecCcr == InitCcr /\ [][NextCcr]_vars


(***************************************************************************)
(* Properties of the hysteresis session.  A read is a statement classified *)
(* as a select; hist.since counts the statements since the latest accepted *)
(* modifying statement that were not modifying themselves, the one just    *)
(* handled included; last.elapsed is the time since that statement.        *)
(***************************************************************************)
AfterRead ==
    /\ filter = "ccr" /\ Attached
    /\ last.op = "routeQuery" /\ last.read /\ last.after_write

Forwarded == down[Len(down)]

C8_ExpiredNotForced ==
    (AfterRead /\ last.left_before = 0 /\ last.elapsed >= inst.time) =>
        /\ ~ Forwarded.hint
        /\ sess.hints_left = 0

\* count = 0, time = 60: a write, 61 seconds, a read.
C8_Witness ==
    /\ AfterRead
    /\ inst.count = 0 /\ inst.time = 60
    /\ calls.rq = 2 /\ last.elapsed = 61
    /\ ~ Forwarded.hint

C10_HintsNonNegative ==
    (filter = "ccr" /\ Attached) => sess.hints_left >= 0


\* C20: a statement whose operation the classifier does not know is handled
\* as a modifying one, never by the branches for reads: whatever got a hint
\* by the count rule or by the time rule was classified as a select.
C20_UndefinedNotRead ==
    (filter = "ccr" /\ last.op = "routeQuery" /\ last.branch \in {"count", "time"}) =>
        last.read

\* C21: a statement classified as modifying is forwarded without a hint and
\* takes no hint from the session: hints_left stays or is set to the
\* configured count, and the counters of added hints stay, whatever
\* hints_left and the time since the latest write are.
C21_ModifyingNotHinted ==
    [][(filter = "ccr" /\ calls'.rq = calls.rq + 1 /\ last'.modifying) =>
          /\ Len(down') = Len(down) + 1
          /\ ~ down'[Len(down')].hint
          /\ sess'.hints_left \in {sess.hints_left, inst.count}
          /\ inst'.stats.n_add_count = inst.stats.n_add_count
          /\ inst'.stats.n_add_time = inst.stats.n_add_time]_vars

\* A modifying statement came while hints were left and the window of the
\* write before it was open.
C21_Witness ==
    /\ filter = "ccr" /\ last.op = "routeQuery" /\ last.modifying
    /\ last.left_before > 0
    /\ last.after_write /\ last.elapsed < inst.time
    /\ ~ Forwarded.hint

\* C22: a message that is not SQL text is forwarded without a hint and leaves
\* hints_left, last_modification and the three counters of the instance as
\* they were, also while reads are being hinted.
C22_NonSqlUntouched ==
    [][(filter = "ccr" /\ calls'.rq = calls.rq + 1 /\ ~ last'.is_sql) =>
          /\ Len(down') = Len(down) + 1
          /\ ~ down'[Len(down')].hint
          /\ sess' = sess
          /\ inst' = inst]_vars

\* Such a message came while hints were left and the window was open.
C22_Witness ==
    /\ filter = "ccr" /\ last.op = "routeQuery" /\ ~ last.is_sql
    /\ last.left_before > 0
    /\ last.after_write /\ last.elapsed < inst.time
    /\ sess.hints_left = last.left_before
    /\ ~ Forwarded.hint

\* C31: a modifying statement that the ignore pattern matches, or that a
\* configured match pattern does not match, is forwarded without a hint and
\* leaves hints_left, last_modification and the counters as they were.
C31_RejectedWriteNoEffect ==
    [][(/\ filter = "ccr" /\ calls'.rq = calls.rq + 1
        /\ last'.modifying /\ hist'.accepted = hist.accepted) =>
          /\ Len(down') = Len(down) + 1
          /\ ~ down'[Len(down')].hint
          /\ sess'.hints_left = sess.hints_left
          /\ sess'.last_modification = sess.last_modification
          /\ inst'.stats = inst.stats]_vars

\* An accepted write, a second later a modifying statement the patterns
\* reject: the hints of the first write are left and its time is kept.
C31_Witness ==
    /\ filter = "ccr" /\ last.op = "routeQuery" /\ last.modifying
    /\ last.after_write /\ hist.accepted = 1 /\ inst.stats.n_modified = 1
    /\ last.elapsed = 1
    /\ last.left_before = 2 /\ sess.hints_left = 2
    /\ sess.last_modification = hist.at
    /\ ~ Forwarded.hint

\* C32: a read gets the hint by the count rule whenever hints_left > 0, the
\* window open or not (n_add_count + 1, hints_left - 1); it gets it by the
\* time rule only when hints_left = 0 and the window is open (n_add_time + 1,
\* hints_left as it was); and the two counters add up to the number of
\* messages forwarded with a hint.
RuleOfHint ==
    /\ (last'.read /\ sess.hints_left > 0) =>
          /\ down'[Len(down')].hint
          /\ inst'.stats.n_add_count = inst.stats.n_add_count + 1
          /\ inst'.stats.n_add_time = inst.stats.n_add_time
          /\ sess'.hints_left = sess.hints_left - 1
    /\ inst'.stats.n_add_time # inst.stats.n_add_time =>
          /\ sess.hints_left = 0 /\ sess'.hints_left = 0
          /\ now.tv_sec - sess.last_modification < inst.time
          /\ down'[Len(down')].hint
          /\ inst'.stats.n_add_time = inst.stats.n_add_time + 1
          /\ inst'.stats.n_add_count = inst.stats.n_add_count
    /\ inst'.stats.n_add_count + inst'.stats.n_add_time
          = Cardinality({k \in 1..Len(down') : down'[k].hint})

C32_OneRulePerHint ==
    [][(filter = "ccr" /\ calls'.rq = calls.rq + 1) => RuleOfHint]_vars

\* The same for the sessions of an instance whose count is not negative.
OneRulePerHintFromZero ==
    [][(filter = "ccr" /\ calls'.rq = calls.rq + 1 /\ inst.count >= 0) =>
          RuleOfHint]_vars

\* C37: hints_left of a session is never more than the configured count, and
\* the hints added by the count rule are never more than count times the
\* accepted modifying statements.
C37_HintsAtMostCount ==
    (filter = "ccr" /\ Attached) =>
        /\ sess.hints_left <= inst.count
        /\ inst.stats.n_add_count <= inst.count * inst.stats.n_modified

\* The same for the sessions of an instance whose count is not negative.
HintsAtMostCountFromZero ==
    (filter = "ccr" /\ Attached /\ inst.count >= 0) =>
        /\ sess.hints_left <= inst.count
        /\ inst.stats.n_add_count <= inst.count * inst.stats.n_modified

\* C38: a read in a session that has accepted no modifying statement gets no
\* hint, whatever the window and the clock are.
C38_NoHintBeforeFirstWrite ==
    (/\ filter = "ccr" /\ Attached
     /\ last.op = "routeQuery" /\ last.read /\ ~ last.after_write) =>
        ~ Forwarded.hint

\* The filter on a host whose clock, in seconds since the epoch, reads less
\* than the configured window.
InitCcrClock ==
    /\ filter = "ccr"
    /\ inst \in {i \in CcrInstances : i.match = NULL /\ i.nomatch = NULL}
    /\ now = tv(CCR_DEFAULT_TIME - 1, 0)
    /\ hist = NoWrites
    /\ InitCommon

SpecCcrClock == InitCcrClock /\ [][NextCcr]_vars

(***************************************************************************)
(* The entry points of ccrfilter.c as they are, with nothing assumed of    *)
(* the order in which the host calls them on an open session: newSession   *)
(* leaves down unset, setDownstream assigns it whenever it is called, and   *)
(* routeQuery calls through it whatever it holds.                          *)
(***************************************************************************)
Downstreams == {"downstream", "other"}

\* setDownstream: my_session->down = *downstream.
ccr_setDownstream_to(downstream) ==
    /\ filter = "ccr"
    /\ fault = "none"
    /\ life = "open"
    /\ sess' = [sess EXCEPT !.down = downstream]
    /\ last' = [op |-> "setDownstream", was |-> sess.down]
    /\ UNCHANGED <<filter, inst, life, now, down, up, files, fault, calls, hist>>

\* routeQuery on a session whose down was never assigned: the session is
\* handled as ever, and then the call goes through a function pointer that
\* malloc left as it found it.  The process dies on it, or goes on
\* somewhere else; the downstream routeQuery is not what is called.
ccr_routeQuery_unwired(queue) ==
    /\ filter = "ccr"
    /\ fault = "none"
    /\ life = "open"
    /\ sess.down = NULL
    /\ calls.rq < MaxStatements
    /\ LET t      == now.tv_sec
           branch == ccr_branch(inst, sess, queue, t)
       IN  /\ sess' = CASE branch = "modified" ->
                             [sess EXCEPT !.hints_left = inst.count,
                                          !.last_modification = t]
                        [] branch = "count" ->
                             [sess EXCEPT !.hints_left = @ - 1]
                        [] OTHER -> sess
           /\ inst' = CASE branch = "modified" ->
                             [inst EXCEPT !.stats.n_modified = @ + 1]
                        [] branch = "count" ->
                             [inst EXCEPT !.stats.n_add_count = @ + 1]
                        [] branch = "time" ->
                             [inst EXCEPT !.stats.n_add_time = @ + 1]
                        [] OTHER -> inst
           /\ last' = [op |-> "routeQuery", branch |-> branch, unwired |-> TRUE]
    /\ \E outcome \in {"crashed", "corrupted"} : fault' = outcome
    /\ calls' = [calls EXCEPT !.rq = @ + 1]
    /\ UNCHANGED <<filter, life, now, down, up, files, hist>>

NextWire ==
    \/ ccr_newSession
    \/ \E downstream \in Downstreams : ccr_setDownstream_to(downstream)
    \/ \E queue \in CcrMessages : fault = "none" /\ ccr_routeQuery(queue)
    \/ \E queue \in CcrMessages : ccr_routeQuery_unwired(queue)
    \/ fault = "none" /\ ccr_closeSession
    \/ fault = "none" /\ ccr_freeSession

SpecWire == InitCcr /\ [][NextWire]_vars

\* C26: routeQuery is not executed on a session whose downstream is unset,
\* and the downstream of a session, once set, is not assigned again.
C26_WiredOnceBeforeUse ==
    [][(filter = "ccr" /\ life = "open") =>
          /\ calls'.rq # calls.rq => sess.down # NULL
          /\ (sess.down # NULL /\ life' = "open") => sess'.down = sess.down]_vars

\* The same without the second part.
NotRoutedUnwired ==
    [][(filter = "ccr" /\ life = "open") =>
          (calls'.rq # calls.rq => sess.down # NULL)]_vars

\* The same without the first part.
NotRewired ==
    [][(filter = "ccr" /\ life = "open" /\ sess.down # NULL /\ life' = "open") =>
          sess'.down = sess.down]_vars

(***************************************************************************)
(* Two sessions of one ccrfilter instance, each on its own worker thread.  *)
(* The session is written by its own thread only; the counters of the     *)
(* instance are written by my_instance->stats.n++, a load and a store with *)
(* nothing between the threads.                                            *)
(***************************************************************************)
CcrThreads == 1..MaxThreads

NoTotals ==
    [n_add_count |-> 0, n_add_time |-> 0, n_modified |-> 0,
     writes |-> [t \in CcrThreads |-> 0]]

\* What routeQuery writes to its session on the branch it takes.
ccr_session_after(i, s, branch, t) ==
    CASE branch = "modified" -> [s EXCEPT !.hints_left = i.count,
                                          !.last_modification = t]
      [] branch = "count" -> [s EXCEPT !.hints_left = @ - 1]
      [] OTHER -> s

\* The counter of the branch.
ccr_counter(branch) ==
    CASE branch = "modified" -> "n_modified"
      [] branch = "count" -> "n_add_count"
      [] branch = "time" -> "n_add_time"

ccr_threads_newSession(t) ==
    /\ filter = "ccr"
    /\ life[t] = "none"
    /\ sess' = [sess EXCEPT ![t] = [down |-> NULL, hints_left |-> 0, last_modification |-> 0]]
    /\ life' = [life EXCEPT ![t] = "open"]
    /\ UNCHANGED <<filter, inst, now, down, up, files, fault, calls, hist, last>>

ccr_threads_setDownstream(t) ==
    /\ filter = "ccr"
    /\ life[t] = "open"
    /\ sess[t].down = NULL
    /\ sess' = [sess EXCEPT ![t].down = "downstream"]
    /\ UNCHANGED <<filter, inst, life, now, down, up, files, fault, calls, hist, last>>

\* Mutant: hints_left and last_modification are kept once for the instance.
ccr_threads_routeQuery_shared(t, queue) ==
    /\ filter = "ccr"
    /\ life[t] = "open"
    /\ sess[t].down # NULL
    /\ calls.rq < MaxCalls
    /\ LET branch == ccr_branch(inst, sess[t], queue, now.tv_sec)
       IN  /\ sess' = [u \in CcrThreads |->
                          IF life[u] = "none" THEN sess[u]
                          ELSE [ccr_session_after(inst, sess[t], branch, now.tv_sec)
                                   EXCEPT !.down = sess[u].down]]
           /\ last' = [last EXCEPT ![t] =
                          [op     |-> "routeQuery",
                           branch |-> branch,
                           read   |-> qc_get_operation(queue) = QUERY_OP_SELECT,
                           value  |-> IF branch \in {"pass", "ignored"} THEN 0
                                      ELSE inst.stats[ccr_counter(branch)]]]
           /\ hist' = [hist EXCEPT
                          !.n_modified  = IF Accepted(inst, queue) THEN @ + 1 ELSE @,
                          !.n_add_count = IF branch = "count" THEN @ + 1 ELSE @,
                          !.n_add_time  = IF branch = "time" THEN @ + 1 ELSE @,
                          !.writes[t]   = IF Accepted(inst, queue) THEN @ + 1 ELSE @]
    /\ life' = [life EXCEPT ![t] = "routing"]
    /\ calls' = [calls EXCEPT !.rq = @ + 1]
    /\ UNCHANGED <<filter, inst, now, down, up, files, fault>>

\* routeQuery up to the load of the counter it is about to increment.
ccr_threads_routeQuery(t, queue) ==
    /\ filter = "ccr"
    /\ life[t] = "open"
    /\ sess[t].down # NULL
    /\ calls.rq < MaxCalls
    /\ LET branch == ccr_branch(inst, sess[t], queue, now.tv_sec)
       IN  /\ sess' = [sess EXCEPT ![t] =
                          ccr_session_after(inst, sess[t], branch, now.tv_sec)]
           /\ last' = [last EXCEPT ![t] =
                          [op     |-> "routeQuery",
                           branch |-> branch,
                           read   |-> qc_get_operation(queue) = QUERY_OP_SELECT,
                           value  |-> IF branch \in {"pass", "ignored"} THEN 0
                                      ELSE inst.stats[ccr_counter(branch)]]]
           /\ hist' = [hist EXCEPT
                          !.n_modified  = IF Accepted(inst, queue) THEN @ + 1 ELSE @,
                          !.n_add_count = IF branch = "count" THEN @ + 1 ELSE @,
                          !.n_add_time  = IF branch = "time" THEN @ + 1 ELSE @,
                          !.writes[t]   = IF Accepted(inst, queue) THEN @ + 1 ELSE @]
    /\ life' = [life EXCEPT ![t] = "routing"]
    /\ calls' = [calls EXCEPT !.rq = @ + 1]
    /\ UNCHANGED <<filter, inst, now, down, up, files, fault>>

\* The rest of routeQuery: the store of the incremented value, and the call
\* of the downstream routeQuery.
ccr_threads_forward(t) ==
    /\ filter = "ccr"
    /\ life[t] = "routing"
    /\ inst' = IF last[t].branch \in {"pass", "ignored"} THEN inst
               ELSE [inst EXCEPT !.stats[ccr_counter(last[t].branch)] = last[t].value + 1]
    /\ down' = DownstreamCall(down, t, last[t].branch \in {"count", "time"})
    /\ life' = [life EXCEPT ![t] = "open"]
    /\ UNCHANGED <<filter, sess, now, up, files, fault, calls, hist, last>>

\* The instances of the two sessions: with or without a match pattern, and
\* no ignore pattern.
CcrThreadsInstances == {i \in CcrInstances : i.nomatch = NULL}

InitCcrThreads ==
    /\ filter = "ccr"
    /\ inst \in CcrThreadsInstances
    /\ sess = [t \in CcrThreads |-> NoSession]
    /\ life = [t \in CcrThreads |-> "none"]
    /\ now = tv(1000, 0)
    /\ down = <<>>
    /\ up = <<>>
    /\ files = <<>>
    /\ fault = "none"
    /\ calls = NoCalls
    /\ hist = NoTotals
    /\ last = [t \in CcrThreads |-> NoCall]

NextCcrThreads ==
    \E t \in CcrThreads :
        \/ ccr_threads_newSession(t)
        \/ ccr_threads_setDownstream(t)
        \/ \E queue \in CcrMessages : ccr_threads_routeQuery(t, queue)
        \/ ccr_threads_forward(t)

SpecCcrThreads == InitCcrThreads /\ [][NextCcrThreads]_vars

\* No routeQuery is in progress.
Quiescent == \A t \in CcrThreads : life[t] # "routing"

\* C35: whenever no routeQuery is in progress, the three counters of the
\* instance are the numbers of accepted modifying statements, of hints by
\* the count rule and of hints by the time rule of all its sessions.
C35_CountersExact ==
    (filter = "ccr" /\ Quiescent) =>
        /\ inst.stats.n_modified = hist.n_modified
        /\ inst.stats.n_add_count = hist.n_add_count
        /\ inst.stats.n_add_time = hist.n_add_time

\* C36: a routeQuery of one session leaves hints_left and last_modification
\* of every other session as they were, and a read gets a hint only in a
\* session that has accepted a modifying statement itself.
C36_SessionsApart ==
    [][\A t \in CcrThreads :
          (calls'.rq = calls.rq + 1 /\ life'[t] = "routing" /\ life[t] = "open") =>
             /\ \A u \in CcrThreads \ {t} : sess'[u] = sess[u]
             /\ (last'[t].read /\ last'[t].branch \in {"count", "time"}) =>
                    hist.writes[t] > 0]_vars

\* One session has accepted a write and has hints left; the other, which
\* has accepted none, was given a read and no hint.
C36_Witness ==
    /\ filter = "ccr"
    /\ \E t, u \in CcrThreads :
          /\ t # u
          /\ life[t] = "open" /\ hist.writes[t] = 1 /\ sess[t].hints_left > 0
          /\ life[u] = "open" /\ hist.writes[u] = 0
          /\ last[u].op = "routeQuery" /\ last[u].read /\ last[u].branch = "pass"
          /\ sess[u].hints_left = 0 /\ sess[u].last_modification = 0
          /\ down # <<>> /\ down[Len(down)] = [id |-> u, hint |-> FALSE]


(***************************************************************************)
(* qlafilter.c                                                             *)
(***************************************************************************)
QlaSql == {"SELECT", " INSERT  1 "}

QlaMessages == {NonSql} \cup {Packet(t) : t \in QlaSql}

\* createInstance with a filebase and patterns that compile.
QlaInstances ==
    {[sessions |-> 0, source |-> r[1], userName |-> r[2],
      match |-> m, nomatch |-> x] :
        r \in Restrictions, m \in {NULL, "INSERT"}, x \in {NULL, "INSERT"}}

\* Mutant: the source and the user are not looked at.
qla_active_always(i, remote, userName) == TRUE

\* The activity test of newSession.
qla_active(i, remote, userName) ==
    ~ \/ (i.source # NULL /\ remote # NULL /\ strcmp(remote, i.source) # 0)
      \/ (i.userName # NULL /\ userName # NULL /\ strcmp(userName, i.userName) # 0)

\* newSession: the file of an active session is opened for writing, which
\* creates or empties it; when fopen fails there is no session.
qla_newSession_from(client) ==
    /\ filter = "qla"
    /\ life = "none"
    /\ \E fp \in {NULL, "fp"} :
       LET remote   == client[1]
           userName == client[2]
           active   == qla_active(inst, remote, userName)
           filename == inst.sessions
       IN  /\ fp = NULL => active
           /\ IF active /\ fp = NULL
              THEN /\ sess' = NoSession
                   /\ life' = "failed"
                   /\ files' = files
              ELSE /\ sess' = [down     |-> NULL,
                               filename |-> filename,
                               fp       |-> IF active THEN fp ELSE NULL,
                               active   |-> active,
                               user     |-> userName,
                               remote   |-> remote]
                   /\ life' = "open"
                   /\ files' = IF active
                               THEN [f \in DOMAIN files \cup {filename} |->
                                        IF f = filename THEN <<>> ELSE files[f]]
                               ELSE files
    /\ inst' = [inst EXCEPT !.sessions = @ + 1]
    /\ down' = <<>>
    /\ calls' = [NoCalls EXCEPT !.ticks = calls.ticks]
    /\ last' = [op |-> "newSession"]
    /\ UNCHANGED <<filter, now, up, fault, hist>>

qla_newSession == \E client \in Clients : qla_newSession_from(client)

qla_setDownstream ==
    /\ filter = "qla"
    /\ life = "open"
    /\ sess.down = NULL
    /\ sess' = [sess EXCEPT !.down = "downstream"]
    /\ UNCHANGED <<filter, inst, life, now, down, up, files, fault, calls, hist, last>>

\* Mutant: the exclusion pattern is not looked at.
qla_logged_match_only(i, s, queue) ==
    /\ s.active
    /\ modutil_get_SQL(queue) # NULL
    /\ (i.match = NULL \/ regexec(i.match, modutil_get_SQL(queue)) = 0)

\* History: the request carries SQL text that has the word of the inclusion
\* pattern, if one is configured, and not the word of the exclusion pattern,
\* if one is configured.
Qualifying(i, queue) ==
    /\ queue.is_sql
    /\ (i.match # NULL => i.match \in Words(queue.sql))
    /\ (i.nomatch # NULL => i.nomatch \notin Words(queue.sql))

NoRequests == [qualifying |-> 0]

\* The statement is written to the log.
qla_logged(i, s, queue) ==
    /\ s.active
    /\ modutil_get_SQL(queue) # NULL
    /\ (i.match = NULL \/ regexec(i.match, modutil_get_SQL(queue)) = 0)
    /\ (i.nomatch = NULL \/ regexec(i.nomatch, modutil_get_SQL(queue)) # 0)

\* The line fprintf writes: "%F %T" of the second, user@remote, statement.
qla_line(s, queue, t) ==
    [time   |-> t.tv_sec,
     user   |-> s.user,
     remote |-> s.remote,
     sql    |-> trim(squeeze_whitespace(modutil_get_SQL(queue)))]

qla_routeQuery(queue) ==
    /\ filter = "qla"
    /\ life = "open"
    /\ sess.down # NULL
    /\ calls.rq < MaxCalls
    /\ files' = IF qla_logged(inst, sess, queue)
                THEN [files EXCEPT ![sess.filename] = Append(@, qla_line(sess, queue, now))]
                ELSE files
    /\ down' = DownstreamCall(down, calls.rq + 1, FALSE)
    /\ calls' = [calls EXCEPT !.rq = @ + 1]
    /\ hist' = [qualifying |-> hist.qualifying
                                   + (IF Qualifying(inst, queue) THEN 1 ELSE 0)]
    /\ last' = [op |-> "routeQuery", logged |-> qla_logged(inst, sess, queue),
                is_sql |-> queue.is_sql]
    /\ UNCHANGED <<filter, inst, sess, life, now, up, fault>>

\* closeSession: fclose of the file of an active session.
qla_closeSession ==
    /\ filter = "qla"
    /\ life = "open"
    /\ sess' = IF sess.active /\ sess.fp # NULL
               THEN [sess EXCEPT !.fp = "closed"]
               ELSE sess
    /\ life' = "closed"
    /\ last' = [op |-> "closeSession"]
    /\ UNCHANGED <<filter, inst, now, down, up, files, fault, calls, hist>>

qla_freeSession ==
    /\ filter = "qla"
    /\ life = "closed"
    /\ sess' = NoSession
    /\ life' = "freed"
    /\ last' = [op |-> "freeSession"]
    /\ UNCHANGED <<filter, inst, now, down, up, files, fault, calls, hist>>

qla_tick ==
    /\ filter = "qla"
    /\ life = "open"
    /\ calls.ticks < MaxTicks
    /\ now' = timeradd(now, tv(1, 0))
    /\ calls' = [calls EXCEPT !.ticks = @ + 1]
    /\ UNCHANGED <<filter, inst, sess, life, down, up, files, fault, hist, last>>

InitQla ==
    /\ filter = "qla"
    /\ inst \in QlaInstances
    /\ now = tv(1000, 0)
    /\ hist = NoRequests
    /\ InitCommon

NextQla ==
    \/ qla_newSession
    \/ qla_setDownstream
    \/ \E queue \in QlaMessages : qla_routeQuery(queue)
    \/ qla_closeSession
    \/ qla_freeSession
    \/ qla_tick

SpecQla == InitQla /\ [][NextQla]_vars

(***************************************************************************)
(* Properties of the logger session                                        *)
(***************************************************************************)
\* C12: a logger session attached from an address other than the configured
\* source has no open file and its derived file does not exist, at attach,
\* after every request and after close.
C12_ForeignSourceNoFile ==
    (filter = "qla" /\ Attached /\ inst.source # NULL /\ sess.remote # inst.source) =>
        /\ sess.fp = NULL
        /\ sess.filename \notin DOMAIN files

\* Such a session was given a request that qualifies for the log, and closed.
C12_Witness ==
    /\ filter = "qla" /\ life = "closed"
    /\ inst.source # NULL /\ sess.remote # inst.source
    /\ hist.qualifying >= 1
    /\ files = <<>>

\* C13: the file of an active logger session has one line for each request
\* whose SQL text passes the inclusion and the exclusion pattern, and no
\* other line.
C13_LinePerQualifying ==
    (filter = "qla" /\ Attached /\ sess.active) =>
        Len(files[sess.filename]) = hist.qualifying

\* Of the requests of an active session with an exclusion pattern some were
\* logged and some were not.
C13_Witness ==
    /\ filter = "qla" /\ Attached /\ sess.active
    /\ inst.nomatch # NULL
    /\ calls.rq = MaxCalls
    /\ hist.qualifying >= 1 /\ hist.qualifying < MaxCalls
    /\ Len(files[sess.filename]) = hist.qualifying

(***************************************************************************)
(* testfilter.c                                                            *)
(***************************************************************************)
TestMessages == {NonSql, Packet("SELECT")}

test_newSession ==
    /\ filter = "test"
    /\ life = "none"
    /\ sess' = [down |-> NULL, count |-> 0]
    /\ inst' = [inst EXCEPT !.sessions = @ + 1]
    /\ life' = "open"
    /\ down' = <<>>
    /\ calls' = NoCalls
    /\ last' = [op |-> "newSession"]
    /\ UNCHANGED <<filter, now, up, files, fault, hist>>

test_setDownstream ==
    /\ filter = "test"
    /\ life = "open"
    /\ sess.down = NULL
    /\ sess' = [sess EXCEPT !.down = "downstream"]
    /\ UNCHANGED <<filter, inst, life, now, down, up, files, fault, calls, hist, last>>

test_routeQuery(queue) ==
    /\ filter = "test"
    /\ life = "open"
    /\ sess.down # NULL
    /\ calls.rq < MaxCalls
    /\ sess' = IF modutil_is_SQL(queue)
               THEN [sess EXCEPT !.count = @ + 1]
               ELSE sess
    /\ down' = DownstreamCall(down, calls.rq + 1, FALSE)
    /\ calls' = [calls EXCEPT !.rq = @ + 1]
    /\ last' = [op |-> "routeQuery", is_sql |-> queue.is_sql]
    /\ UNCHANGED <<filter, inst, life, now, up, files, fault, hist>>

test_closeSession ==
    /\ filter = "test"
    /\ life = "open"
    /\ life' = "closed"
    /\ last' = [op |-> "closeSession"]
    /\ UNCHANGED <<filter, inst, sess, now, down, up, files, fault, calls, hist>>

test_freeSession ==
    /\ filter = "test"
    /\ life = "closed"
    /\ sess' = NoSession
    /\ life' = "freed"
    /\ last' = [op |-> "freeSession"]
    /\ UNCHANGED <<filter, inst, now, down, up, files, fault, calls, hist>>

InitTest ==
    /\ filter = "test"
    /\ inst = [sessions |-> 0]
    /\ now = tv(1000, 0)
    /\ hist = NoWrites
    /\ InitCommon

NextTest ==
    \/ test_newSession
    \/ test_setDownstream
    \/ \E queue \in TestMessages : test_routeQuery(queue)
    \/ test_closeSession
    \/ test_freeSession

(***************************************************************************)
(* newSession of the logger and of the Top-N filter, called by several     *)
(* worker threads on one instance.  Each thread attaches one session; the  *)
(* steps of a call are the accesses to what the threads share: the read of *)
(* my_instance->sessions by sprintf, atomic_add on it, and fopen.  Here    *)
(* sess and life hold one entry per thread, and life[t] is the position of *)
(* thread t in its call: "none" before it, "named" after the first         *)
(* sprintf, "counted" after atomic_add, then "open" with the session       *)
(* returned, or "failed" with NULL returned.                               *)
(***************************************************************************)
AttachThreads == 1..MaxThreads

\* History: the threads in the order of their calls, whether a call began
\* while another was in progress, and what fopen returned to each thread.
NoAttach ==
    [order |-> <<>>, overlap |-> FALSE, fopen |-> [t \in AttachThreads |-> "none"]]

attach_begin(t) ==
    [hist EXCEPT !.order = Append(@, t),
                 !.overlap = @ \/ \E u \in AttachThreads :
                                     life[u] \in {"named", "counted"}]

\* atomic_add(&variable, value): the addition is one step, whatever the
\* other threads do.
atomic_add(variable, value) == variable + value

\* qlafilter.c newSession up to sprintf: the name is made of the counter as
\* it is read now.
qla_attach_name(t) ==
    /\ filter = "qla"
    /\ life[t] = "none"
    /\ \E client \in Clients :
          sess' = [sess EXCEPT ![t] =
                      [down     |-> NULL,
                       filename |-> inst.sessions,
                       fp       |-> NULL,
                       active   |-> qla_active(inst, client[1], client[2]),
                       user     |-> client[2],
                       remote   |-> client[1]]]
    /\ life' = [life EXCEPT ![t] = "named"]
    /\ hist' = attach_begin(t)
    /\ UNCHANGED <<filter, inst, now, down, up, files, fault, calls, last>>

\* Mutant: the counter is written as one more than it was when the name was
\* made of it.
qla_attach_count_stale(t) ==
    /\ filter = "qla"
    /\ life[t] = "named"
    /\ inst' = [inst EXCEPT !.sessions = sess[t].filename + 1]
    /\ life' = [life EXCEPT ![t] = "counted"]
    /\ UNCHANGED <<filter, sess, now, down, up, files, fault, calls, hist, last>>

\* atomic_add(&(my_instance->sessions), 1)
qla_attach_count(t) ==
    /\ filter = "qla"
    /\ life[t] = "named"
    /\ inst' = [inst EXCEPT !.sessions = atomic_add(@, 1)]
    /\ life' = [life EXCEPT ![t] = "counted"]
    /\ UNCHANGED <<filter, sess, now, down, up, files, fault, calls, hist, last>>

\* Mutant: the session is returned although fopen failed.
qla_attach_result_kept(s, fp) == [s EXCEPT !.fp = IF s.active THEN fp ELSE NULL]

\* What newSession returns after the file was or was not opened: the session,
\* or NULL with the session freed when fopen failed.
qla_attach_result(s, fp) ==
    IF s.active /\ fp = NULL
    THEN NoSession
    ELSE [s EXCEPT !.fp = IF s.active THEN fp ELSE NULL]

\* The rest of newSession: fopen(filename, "w") for an active session.
qla_attach_open(t) ==
    /\ filter = "qla"
    /\ life[t] = "counted"
    /\ \E fp \in {NULL, "fp"} :
          /\ fp = NULL => sess[t].active
          /\ sess' = [sess EXCEPT ![t] = qla_attach_result(sess[t], fp)]
          /\ life' = [life EXCEPT ![t] =
                         IF qla_attach_result(sess[t], fp) = NoSession
                         THEN "failed" ELSE "open"]
          /\ files' = IF sess[t].active /\ fp # NULL
                      THEN [f \in DOMAIN files \cup {sess[t].filename} |->
                               IF f = sess[t].filename THEN <<>> ELSE files[f]]
                      ELSE files
          /\ hist' = [hist EXCEPT !.fopen[t] = IF sess[t].active THEN fp ELSE "none"]
    /\ UNCHANGED <<filter, inst, now, down, up, calls, fault, last>>

\* topfilter.c newSession up to the first sprintf: the zeroed session with
\* the name made of the counter as it is read now.
topn_attach_name(t) ==
    /\ filter = "topn"
    /\ life[t] = "none"
    /\ sess' = [sess EXCEPT ![t] =
                   [down         |-> NULL,
                    up           |-> NULL,
                    active       |-> FALSE,
                    clientHost   |-> NULL,
                    userName     |-> NULL,
                    filename     |-> inst.sessions,
                    start        |-> tv(0, 0),
                    current      |-> NULL,
                    top          |-> <<>>,
                    n_statements |-> 0,
                    total        |-> tv(0, 0),
                    connect      |-> tv(0, 0),
                    disconnect   |-> tv(0, 0)]]
    /\ life' = [life EXCEPT ![t] = "named"]
    /\ hist' = attach_begin(t)
    /\ UNCHANGED <<filter, inst, now, down, up, files, fault, calls, last>>

\* atomic_add(&my_instance->sessions, 1)
topn_attach_count(t) ==
    /\ filter = "topn"
    /\ life[t] = "named"
    /\ inst' = [inst EXCEPT !.sessions = atomic_add(@, 1)]
    /\ life' = [life EXCEPT ![t] = "counted"]
    /\ UNCHANGED <<filter, sess, now, down, up, files, fault, calls, hist, last>>

\* The rest of newSession: the slots, the client, the activity test, and the
\* second sprintf, which makes the name of the counter as it is read now.
topn_attach_rename(t) ==
    /\ filter = "topn"
    /\ life[t] = "counted"
    /\ \E client \in Clients :
          sess' = [sess EXCEPT ![t] =
                      [@ EXCEPT !.top = [i \in 1..inst.topN |-> TOPNQ(tv(0, 0), NULL)],
                                !.clientHost = client[1],
                                !.userName = client[2],
                                !.active = topn_active(inst, client[1], client[2]),
                                !.filename = inst.sessions,
                                !.connect = now]]
    /\ life' = [life EXCEPT ![t] = "open"]
    /\ UNCHANGED <<filter, inst, now, down, up, files, fault, calls, hist, last>>

\* testfilter.c newSession: when calloc returns the session, atomic_add and
\* count = 0; when it returns NULL, nothing.
test_attach(t) ==
    /\ filter = "test"
    /\ life[t] = "none"
    /\ \E my_session \in {NULL, "session"} :
          IF my_session # NULL
          THEN /\ inst' = [inst EXCEPT !.sessions = atomic_add(@, 1)]
               /\ sess' = [sess EXCEPT ![t] = [down |-> NULL, count |-> 0]]
               /\ life' = [life EXCEPT ![t] = "open"]
          ELSE /\ inst' = inst
               /\ sess' = sess
               /\ life' = [life EXCEPT ![t] = "refused"]
    /\ hist' = attach_begin(t)
    /\ UNCHANGED <<filter, now, down, up, files, fault, calls, last>>

InitAttach ==
    /\ \/ filter = "qla" /\ inst \in QlaInstances
       \/ filter = "topn" /\ inst \in TopInstances
       \/ filter = "test" /\ inst = [sessions |-> 0]
    /\ sess = [t \in AttachThreads |-> NoSession]
    /\ life = [t \in AttachThreads |-> "none"]
    /\ now = tv(1000, 0)
    /\ down = <<>>
    /\ up = <<>>
    /\ files = <<>>
    /\ fault = "none"
    /\ calls = NoCalls
    /\ hist = NoAttach
    /\ last = NoCall

NextAttach ==
    \E t \in AttachThreads :
        \/ qla_attach_name(t)
        \/ qla_attach_count(t)
        \/ qla_attach_open(t)
        \/ topn_attach_name(t)
        \/ topn_attach_count(t)
        \/ topn_attach_rename(t)
        \/ test_attach(t)

SpecAttach == InitAttach /\ [][NextAttach]_vars

(***************************************************************************)
(* Properties of the attaching threads                                     *)
(***************************************************************************)
\* C14: no two sessions attached to one logger or Top-N instance have the
\* same output file name, however the newSession calls interleave.
C14_DistinctFileNames ==
    filter \in {"qla", "topn"} =>
        \A t, u \in AttachThreads :
            (t # u /\ life[t] = "open" /\ life[u] = "open") =>
                sess[t].filename # sess[u].filename

\* C15: of the sessions attached one after another to a logger or Top-N
\* instance, the k-th has the file name <filebase>.<k-1>.
C15_SequentialIndexFromZero ==
    (filter \in {"qla", "topn"} /\ ~ hist.overlap) =>
        \A k \in 1..Len(hist.order) :
            life[hist.order[k]] = "open" => sess[hist.order[k]].filename = k - 1

\* The same for the logger alone.
LoggerIndexFromZero == filter = "qla" => C15_SequentialIndexFromZero

\* C19: an active logger session whose fopen fails gets no session from
\* newSession, and only such a session: a thread that attaches after the
\* failure of another gets its session and its file.
C19_OpenFailureIsLocal ==
    filter = "qla" =>
        \A t \in AttachThreads :
            /\ life[t] = "failed" =>
                   (hist.fopen[t] = NULL /\ sess[t] = NoSession)
            /\ life[t] = "open" =>
                   /\ hist.fopen[t] # NULL
                   /\ sess[t] # NoSession
                   /\ sess[t].active =>
                          (sess[t].fp = "fp" /\ sess[t].filename \in DOMAIN files)

\* The first thread failed to open its file before the second one called
\* newSession, and the second one has its session and its file.
C19_Witness ==
    /\ filter = "qla"
    /\ ~ hist.overlap
    /\ Len(hist.order) = 2
    /\ life[hist.order[1]] = "failed"
    /\ sess[hist.order[1]] = NoSession
    /\ life[hist.order[2]] = "open"
    /\ sess[hist.order[2]].active
    /\ sess[hist.order[2]].fp = "fp"
    /\ sess[hist.order[2]].filename = 1
    /\ 1 \in DOMAIN files

\* The threads whose newSession got its session from calloc and went past
\* the increment.
Counted == {t \in AttachThreads : life[t] \in {"counted", "open", "failed"}}

\* C34: the session counter of a logger, Top-N or test instance only grows,
\* by one for each newSession that allocated its session, and is the number
\* of these calls however they interleave.
C34_CounterCountsAttaches ==
    [][/\ inst'.sessions \in {inst.sessions, inst.sessions + 1}
       /\ inst'.sessions = Cardinality(Counted')]_vars

\* Every thread called newSession while another call was in progress, and
\* all of them are past the increment.
C34_Witness ==
    /\ hist.overlap
    /\ Counted = AttachThreads
    /\ inst.sessions = MaxThreads

(***************************************************************************)
(* createInstance of the logger, the Top-N filter and the hysteresis       *)
(* filter, called with the options and the parameters of one filter        *)
(* section of the configuration.  inst is NoInstance before the call and   *)
(* when the call returns NULL.                                             *)
(***************************************************************************)
NoInstance == [none |-> TRUE]

Param(name, value) == [name |-> name, value |-> value]

\* The name/value pairs of a filter section.  "[" opens a bracket expression
\* that is never closed; "module" is a parameter of every filter section.
CreateParams ==
    {Param("filebase", "fb"), Param("count", "2"), Param("time", "0"),
     Param("source", "h1"), Param("module", "any"), Param("bogus", "1")}
    \cup {Param(n, v) : n \in {"match", "exclude", "ignore"}, v \in {"INSERT", "["}}

ParamLists == UNION {[1..n -> CreateParams] : n \in 0..MaxParams}

CreateOptions == {<<>>, <<"case">>, <<"extended">>, <<"bogus">>}

\* config.c/filter.c: the parameters every filter section has.
filter_standard_parameter(name) == name \in {"type", "module"}

atoi(value) == CASE value = "0" -> 0 [] value = "2" -> 2 [] OTHER -> 0

\* The loop over the options: the flags handed to regcomp.
RECURSIVE regex_cflags(_, _, _)
regex_cflags(options, k, cflags) ==
    IF k > Len(options) THEN cflags
    ELSE regex_cflags(options, k + 1,
            CASE options[k] = "ignorecase" -> cflags \cup {"REG_ICASE"}
              [] options[k] = "case"       -> cflags \ {"REG_ICASE"}
              [] options[k] = "extended"   -> cflags \cup {"REG_EXTENDED"}
              [] OTHER                     -> cflags)

\* The loop over the options of the logger and the Top-N filter: an option
\* that is none of the three sets error.
unsupported_option(options) ==
    \E k \in 1..Len(options) : options[k] \notin {"ignorecase", "case", "extended"}

\* regcomp: 0, or an error code for a pattern that is not well-formed with
\* or without REG_EXTENDED.
regcomp(pattern, cflags) == IF pattern = "[" THEN 1 ELSE 0

\* Mutant: a missing filebase is not an error.
filebase_missing_ignored(filebase) == FALSE

\* if (my_instance->filebase == NULL) of the logger and the Top-N filter.
filebase_missing(filebase) == filebase = NULL

\* The loop over the parameters of topfilter.c.
RECURSIVE topn_params(_, _, _)
topn_params(params, k, a) ==
    IF k > Len(params) THEN a
    ELSE LET name  == params[k].name
             value == params[k].value
         IN  topn_params(params, k + 1,
                CASE name = "count"    -> [a EXCEPT !.topN = atoi(value)]
                  [] name = "filebase" -> [a EXCEPT !.filebase = value]
                  [] name = "match"    -> [a EXCEPT !.match = value]
                  [] name = "exclude"  -> [a EXCEPT !.exclude = value]
                  [] name = "source"   -> [a EXCEPT !.source = value]
                  [] name = "user"     -> [a EXCEPT !.user = value]
                  [] OTHER -> IF filter_standard_parameter(name) THEN a
                              ELSE [a EXCEPT !.error = TRUE])

topn_createInstance(options, params) ==
    LET a == topn_params(params, 1,
                 [topN |-> 10, match |-> NULL, exclude |-> NULL, source |-> NULL,
                  user |-> NULL, filebase |-> NULL, error |-> FALSE])
        cflags == regex_cflags(options, 1, {"REG_ICASE"})
        error == \/ a.error
                 \/ unsupported_option(options)
                 \/ filebase_missing(a.filebase)
                 \/ (a.match # NULL /\ regcomp(a.match, cflags) # 0)
                 \/ (a.exclude # NULL /\ regcomp(a.exclude, cflags) # 0)
    IN  IF error THEN NoInstance
        ELSE [sessions |-> 0, topN |-> a.topN, source |-> a.source, user |-> a.user,
              filebase |-> a.filebase, match |-> a.match, exclude |-> a.exclude]

\* The loop over the parameters of qlafilter.c.
RECURSIVE qla_params(_, _, _)
qla_params(params, k, a) ==
    IF k > Len(params) THEN a
    ELSE LET name  == params[k].name
             value == params[k].value
         IN  qla_params(params, k + 1,
                CASE name = "match"    -> [a EXCEPT !.match = value]
                  [] name = "exclude"  -> [a EXCEPT !.nomatch = value]
                  [] name = "source"   -> [a EXCEPT !.source = value]
                  [] name = "user"     -> [a EXCEPT !.userName = value]
                  [] name = "filebase" -> [a EXCEPT !.filebase = value]
                  [] OTHER -> IF filter_standard_parameter(name) THEN a
                              ELSE [a EXCEPT !.error = TRUE])

qla_createInstance(options, params) ==
    LET a == qla_params(params, 1,
                 [source |-> NULL, userName |-> NULL, match |-> NULL,
                  nomatch |-> NULL, filebase |-> NULL, error |-> FALSE])
        cflags == regex_cflags(options, 1, {"REG_ICASE"})
        error == \/ a.error
                 \/ unsupported_option(options)
                 \/ filebase_missing(a.filebase)
                 \/ (a.match # NULL /\ regcomp(a.match, cflags) # 0)
                 \/ (a.nomatch # NULL /\ regcomp(a.nomatch, cflags) # 0)
    IN  IF error THEN NoInstance
        ELSE [sessions |-> 0, source |-> a.source, userName |-> a.userName,
              filebase |-> a.filebase, match |-> a.match, nomatch |-> a.nomatch]

\* The loop over the parameters of ccrfilter.c: an unexpected parameter is
\* logged, and that is all.
RECURSIVE ccr_params(_, _, _)
ccr_params(params, k, a) ==
    IF k > Len(params) THEN a
    ELSE LET name  == params[k].name
             value == params[k].value
         IN  ccr_params(params, k + 1,
                CASE name = "count"  -> [a EXCEPT !.count = atoi(value)]
                  [] name = "time"   -> [a EXCEPT !.time = atoi(value)]
                  [] name = "match"  -> [a EXCEPT !.match = value]
                  [] name = "ignore" -> [a EXCEPT !.nomatch = value]
                  [] OTHER -> a)

\* createInstance of ccrfilter.c: a regcomp that fails is logged, and the
\* instance is returned with the pattern text and a regex_t that was not
\* compiled.
ccr_createInstance(options, params) ==
    LET a == ccr_params(params, 1,
                 [count |-> 0, time |-> CCR_DEFAULT_TIME,
                  match |-> NULL, nomatch |-> NULL])
        cflags == regex_cflags(options, 1, {"REG_ICASE"})
        compiled(pattern) ==
            IF pattern = NULL THEN "unset"
            ELSE IF regcomp(pattern, cflags) = 0 THEN "compiled" ELSE "invalid"
    IN  [match |-> a.match, nomatch |-> a.nomatch, time |-> a.time, count |-> a.count,
         stats |-> [n_add_count |-> 0, n_add_time |-> 0, n_modified |-> 0],
         re |-> compiled(a.match), nore |-> compiled(a.nomatch)]

topn_create(options, params) ==
    /\ filter = "topn"
    /\ last = NoCall
    /\ inst' = topn_createInstance(options, params)
    /\ last' = [op |-> "createInstance", options |-> options, params |-> params]
    /\ UNCHANGED <<filter, sess, life, now, down, up, files, fault, calls, hist>>

qla_create(options, params) ==
    /\ filter = "qla"
    /\ last = NoCall
    /\ inst' = qla_createInstance(options, params)
    /\ last' = [op |-> "createInstance", options |-> options, params |-> params]
    /\ UNCHANGED <<filter, sess, life, now, down, up, files, fault, calls, hist>>

ccr_create(options, params) ==
    /\ filter = "ccr"
    /\ last = NoCall
    /\ inst' = ccr_createInstance(options, params)
    /\ last' = [op |-> "createInstance", options |-> options, params |-> params]
    /\ UNCHANGED <<filter, sess, life, now, down, up, files, fault, calls, hist>>

InitCreate ==
    /\ filter \in {"topn", "qla", "ccr"}
    /\ inst = NoInstance
    /\ now = tv(1000, 0)
    /\ hist = NoWrites
    /\ InitCommon

\* createInstance is called once for the filter section.
NextCreate ==
    /\ last = NoCall
    /\ \E options \in CreateOptions, params \in ParamLists :
        \/ topn_create(options, params)
        \/ qla_create(options, params)
        \/ ccr_create(options, params)

SpecCreate == InitCreate /\ [][NextCreate]_vars

(***************************************************************************)
(* Properties of createInstance                                            *)
(***************************************************************************)
Created == last.op = "createInstance"

Given(params, name) == \E k \in 1..Len(params) : params[k].name = name

\* The value of the last parameter of that name.
Effective(params, name) ==
    LET ks == {k \in 1..Len(params) : params[k].name = name}
    IN  IF ks = {} THEN NULL
        ELSE params[CHOOSE k \in ks : \A j \in ks : j <= k].value

PatternNames == IF filter = "ccr" THEN {"match", "ignore"} ELSE {"match", "exclude"}

Recognised ==
    CASE filter = "qla"  -> {"match", "exclude", "source", "user", "filebase"}
      [] filter = "topn" -> {"count", "filebase", "match", "exclude", "source", "user"}
      [] filter = "ccr"  -> {"count", "time", "match", "ignore"}

\* C16: createInstance of the logger, the Top-N filter and the hysteresis
\* filter returns no instance when the match pattern or the exclude/ignore
\* pattern does not compile.
C16_BadPatternFails ==
    (Created /\ \E n \in PatternNames : Effective(last.params, n) = "[") =>
        inst = NoInstance

\* The same for the logger and the Top-N filter alone.
BadPatternFailsWithFilebase == filter # "ccr" => C16_BadPatternFails

\* C17: createInstance of the three filters returns no instance when a
\* parameter is neither one of the filter's own nor a standard one.
C17_UnknownParameterFails ==
    (Created /\ \E k \in 1..Len(last.params) :
                   /\ last.params[k].name \notin Recognised
                   /\ last.params[k].name \notin {"type", "module"}) =>
        inst = NoInstance

\* The same for the logger and the Top-N filter alone.
UnknownParameterFailsWithFilebase == filter # "ccr" => C17_UnknownParameterFails

\* C18: createInstance of the logger and of the Top-N filter returns no
\* instance when no filebase parameter is given.
C18_FilebaseRequired ==
    (Created /\ filter \in {"qla", "topn"} /\ ~ Given(last.params, "filebase")) =>
        inst = NoInstance

\* The call had supported options and parameters that are all known and
\* well-formed, a pattern among them, but no filebase.
C18_Witness ==
    /\ Created /\ filter \in {"qla", "topn"}
    /\ ~ Given(last.params, "filebase")
    /\ last.options = <<"case">>
    /\ Len(last.params) = 2
    /\ Effective(last.params, "match") = "INSERT"
    /\ Effective(last.params, "source") = "h1"
    /\ inst = NoInstance

(***************************************************************************)
(* The debug CLI router of testroute.c: one instance, whose sessions are   *)
(* kept in a singly linked list, inst->sessions, under inst->lock.  Each   *)
(* thread attaches one session and closes it; a session is named by its    *)
(* thread, and 0 is the null pointer.                                      *)
(***************************************************************************)
CliThreads == 1..MaxThreads

CliPointers == {0} \cup CliThreads

CliModes == {"CLIM_USER", "CLIM_DEVELOPER"}

\* spinlock_acquire returns only when the lock is held by nobody.
spinlock_is_free(lock) == lock = 0

\* The sessions reached from a pointer by following next, at most fuel of
\* them.
RECURSIVE cli_walk(_, _, _)
cli_walk(ptr, s, fuel) ==
    IF ptr = 0 \/ fuel = 0
    THEN <<>>
    ELSE <<ptr>> \o cli_walk(s[ptr].next, s, fuel - 1)

cli_list == cli_walk(inst.sessions, sess, MaxThreads + 1)

\* newSession up to the lock: malloc, and the fields set before the list is
\* touched.  next is whatever malloc left there.
cli_newSession_alloc(t) ==
    /\ filter = "cli"
    /\ life[t] = "none"
    /\ \E client \in {NULL, "client"} :
          IF client = NULL
          THEN /\ sess' = sess
               /\ life' = [life EXCEPT ![t] = "refused"]
          ELSE /\ \E junk \in CliPointers :
                     sess' = [sess EXCEPT ![t] = [next |-> junk, mode |-> NULL]]
               /\ life' = [life EXCEPT ![t] = "allocated"]
    /\ UNCHANGED <<filter, inst, now, down, up, files, fault, calls, hist, last>>

\* spinlock_acquire(&inst->lock)
cli_newSession_acquire(t) ==
    /\ filter = "cli"
    /\ life[t] = "allocated"
    /\ spinlock_is_free(inst.lock)
    /\ inst' = [inst EXCEPT !.lock = t]
    /\ life' = [life EXCEPT ![t] = "new_locked"]
    /\ UNCHANGED <<filter, sess, now, down, up, files, fault, calls, hist, last>>

\* client->next = inst->sessions
cli_newSession_link(t) ==
    /\ filter = "cli"
    /\ life[t] = "new_locked"
    /\ sess' = [sess EXCEPT ![t].next = inst.sessions]
    /\ life' = [life EXCEPT ![t] = "new_linked"]
    /\ UNCHANGED <<filter, inst, now, down, up, files, fault, calls, hist, last>>

\* inst->sessions = client
cli_newSession_head(t) ==
    /\ filter = "cli"
    /\ life[t] = "new_linked"
    /\ inst' = [inst EXCEPT !.sessions = t]
    /\ life' = [life EXCEPT ![t] = "new_headed"]
    /\ UNCHANGED <<filter, sess, now, down, up, files, fault, calls, hist, last>>

\* spinlock_release(&inst->lock), and the rest of newSession.
cli_newSession_release(t) ==
    /\ filter = "cli"
    /\ life[t] = "new_headed"
    /\ inst' = [inst EXCEPT !.lock = 0]
    /\ sess' = [sess EXCEPT ![t].mode = inst.mode]
    /\ life' = [life EXCEPT ![t] = "open"]
    /\ UNCHANGED <<filter, now, down, up, files, fault, calls, hist, last>>

\* spinlock_acquire(&inst->lock)
cli_closeSession_acquire(t) ==
    /\ filter = "cli"
    /\ life[t] = "open"
    /\ spinlock_is_free(inst.lock)
    /\ inst' = [inst EXCEPT !.lock = t]
    /\ life' = [life EXCEPT ![t] = "close_locked"]
    /\ UNCHANGED <<filter, sess, now, down, up, files, fault, calls, hist, last>>

\* Mutant: the head of the list is set to the successor of the session
\* wherever the session is.
cli_unlink_head(head, s, session) ==
    [head |-> s[session].next, sess |-> s]

\* The body of closeSession: the head is moved when the session is the
\* first, else next of the session before it, if there is one.
cli_unlink(head, s, session) ==
    IF head = session
    THEN [head |-> s[session].next, sess |-> s]
    ELSE LET before == {p \in CliThreads :
                          /\ \E k \in DOMAIN cli_walk(head, s, MaxThreads + 1) :
                                cli_walk(head, s, MaxThreads + 1)[k] = p
                          /\ s[p].next = session}
         IN  IF before # {}
             THEN [head |-> head,
                   sess |-> [s EXCEPT ![CHOOSE p \in before : TRUE].next = s[session].next]]
             ELSE [head |-> head, sess |-> s]

cli_closeSession_unlink(t) ==
    /\ filter = "cli"
    /\ life[t] = "close_locked"
    /\ inst' = [inst EXCEPT !.sessions = cli_unlink(inst.sessions, sess, t).head]
    /\ sess' = cli_unlink(inst.sessions, sess, t).sess
    /\ life' = [life EXCEPT ![t] = "close_unlinked"]
    /\ UNCHANGED <<filter, now, down, up, files, fault, calls, hist, last>>

\* spinlock_release(&inst->lock)
cli_closeSession_release(t) ==
    /\ filter = "cli"
    /\ life[t] = "close_unlinked"
    /\ inst' = [inst EXCEPT !.lock = 0]
    /\ life' = [life EXCEPT ![t] = "closed"]
    /\ UNCHANGED <<filter, sess, now, down, up, files, fault, calls, hist, last>>

cli_freeSession(t) ==
    /\ filter = "cli"
    /\ life[t] = "closed"
    /\ sess' = [sess EXCEPT ![t] = NoSession]
    /\ life' = [life EXCEPT ![t] = "freed"]
    /\ UNCHANGED <<filter, inst, now, down, up, files, fault, calls, hist, last>>

\* createInstance: no session, the lock free, the mode of the options.
InitCli ==
    /\ filter = "cli"
    /\ \E mode \in CliModes : inst = [sessions |-> 0, lock |-> 0, mode |-> mode]
    /\ sess = [t \in CliThreads |-> NoSession]
    /\ life = [t \in CliThreads |-> "none"]
    /\ now = tv(0, 0)
    /\ down = <<>>
    /\ up = <<>>
    /\ files = <<>>
    /\ fault = "none"
    /\ calls = NoCalls
    /\ hist = NoWrites
    /\ last = NoCall

NextCli ==
    \E t \in CliThreads :
        \/ cli_newSession_alloc(t)
        \/ cli_newSession_acquire(t)
        \/ cli_newSession_link(t)
        \/ cli_newSession_head(t)
        \/ cli_newSession_release(t)
        \/ cli_closeSession_acquire(t)
        \/ cli_closeSession_unlink(t)
        \/ cli_closeSession_release(t)
        \/ cli_freeSession(t)

SpecCli == InitCli /\ [][NextCli]_vars

\* The sessions newSession has put at the head of the list and closeSession
\* has not taken out.
Registered == {t \in CliThreads : life[t] \in {"new_headed", "open", "close_locked"}}

\* The list and the fields next are written by the thread that holds the
\* lock only.
WrittenUnderLock ==
    (\/ inst'.sessions # inst.sessions
     \/ \E t \in Registered : sess'[t].next # sess[t].next) =>
        (inst.lock # 0 /\ life'[inst.lock] # life[inst.lock])

\* C40: the session list of the debug CLI router is written under the lock
\* of the instance only; it holds the sessions created and not yet closed,
\* each once, however the calls interleave; and closeSession takes out its
\* session and leaves the others in their order.
C40_ListIsRegistered ==
    [][/\ WrittenUnderLock
       /\ Len(cli_list') = Cardinality(Registered')
       /\ {cli_list'[k] : k \in DOMAIN cli_list'} = Registered'
       /\ \A t \in CliThreads :
             (life[t] = "close_locked" /\ life'[t] = "close_unlinked") =>
                cli_list' = SelectSeq(cli_list, LAMBDA x : x # t)]_vars

\* The session that was attached first, the last of the list, has been
\* closed while all the others are attached.
C40_Witness ==
    /\ filter = "cli"
    /\ \E t \in CliThreads :
          /\ life[t] = "closed" /\ sess[t].next = 0
          /\ \A u \in CliThreads \ {t} : life[u] = "open"
          /\ inst.sessions # 0
          /\ Len(cli_list) = MaxThreads - 1


(***************************************************************************)
(* The client identity at attach.  session_get_remote and session_getUser  *)
(* return NULL for a session whose client address or user name is not      *)
(* known; the instance is configured with a source, a user, both or none.  *)
(***************************************************************************)
Identities == {<<remote, user>> : remote \in {NULL, "h1", "h2"}, user \in {NULL, "u1", "u2"}}

IdentityRestrictions == {<<source, user>> : source \in {NULL, "h1"}, user \in {NULL, "u1"}}

IdentityInstances ==
    {[kind |-> "topn",
      inst |-> [sessions |-> 0, topN |-> 1, source |-> r[1], user |-> r[2],
                match |-> NULL, exclude |-> NULL]] : r \in IdentityRestrictions}
    \cup
    {[kind |-> "qla",
      inst |-> [sessions |-> 0, source |-> r[1], userName |-> r[2],
                match |-> NULL, nomatch |-> NULL]] : r \in IdentityRestrictions}

\* ss_dassert(userName && remote) in the logger's newSession: a build with
\* the debug assertions stops here, any other build goes on.
qla_newSession_dassert(client) ==
    /\ filter = "qla"
    /\ life = "none"
    /\ client[1] = NULL \/ client[2] = NULL
    /\ fault' = "crashed"
    /\ last' = [op |-> "newSession"]
    /\ UNCHANGED <<filter, inst, sess, life, now, down, up, files, calls, hist>>

InitIdentity ==
    /\ \E c \in IdentityInstances : filter = c.kind /\ inst = c.inst
    /\ now = tv(0, 0)
    /\ hist = IF filter = "topn" THEN [durations |-> EmptyBag] ELSE NoRequests
    /\ InitCommon

NextIdentity ==
    \/ \E client \in Identities : fault = "none" /\ topn_newSession_from(client)
    \/ \E client \in Identities : fault = "none" /\ qla_newSession_dassert(client)
    \/ \E client \in Identities : fault = "none" /\ qla_newSession_from(client)
    \/ fault = "none" /\ topn_setDownstream
    \/ fault = "none" /\ topn_setUpstream
    \/ \E queue \in TopMessages : fault = "none" /\ topn_routeQuery(queue)
    \/ fault = "none" /\ topn_clientReply_idle
    \/ fault = "none" /\ topn_clientReply_pending
    \/ fault = "none" /\ topn_closeSession
    \/ fault = "none" /\ topn_freeSession
    \/ fault = "none" /\ topn_tick
    \/ fault = "none" /\ qla_setDownstream
    \/ \E queue \in QlaMessages : fault = "none" /\ qla_routeQuery(queue)
    \/ fault = "none" /\ qla_closeSession
    \/ fault = "none" /\ qla_freeSession
    \/ fault = "none" /\ qla_tick

SpecIdentity == InitIdentity /\ [][NextIdentity]_vars

\* The identity the session was attached with and the restrictions of its
\* instance, under the names of either filter.
ClientHost == IF filter = "topn" THEN sess.clientHost ELSE sess.remote

ClientUser == IF filter = "topn" THEN sess.userName ELSE sess.user

SourceRestriction == inst.source

UserRestriction == IF filter = "topn" THEN inst.user ELSE inst.userName

RestrictionsMatch ==
    /\ SourceRestriction = NULL \/ ClientHost = SourceRestriction
    /\ UserRestriction = NULL \/ ClientUser = UserRestriction

\* C33: a logger or Top-N session is active exactly when the client address
\* equals the configured source, if one is configured, and the user name
\* equals the configured user, if one is configured; a session of unknown
\* address or user under such a restriction is not active.
C33_ActiveIffRestrictionsMatch ==
    (filter \in {"topn", "qla"} /\ Attached) =>
        (sess.active <=> RestrictionsMatch)

\* The same for the sessions whose address and user name are known.
ActiveIffKnownMatch ==
    (filter \in {"topn", "qla"} /\ Attached
        /\ ClientHost # NULL /\ ClientUser # NULL) =>
        (sess.active <=> RestrictionsMatch)

\* The flag is as newSession left it until the session is freed.
ActiveFixedAtAttach ==
    [][(filter \in {"topn", "qla"} /\ Attached /\ life' \in {"open", "closed"}) =>
          sess'.active = sess.active]_vars


(***************************************************************************)
(* An instance of any of the four filters with its session.                *)
(***************************************************************************)
Init == InitTop \/ InitCcr \/ InitQla \/ InitTest

Next == NextTop \/ NextCcr \/ NextQla \/ NextTest

Spec == Init /\ [][Next]_vars

\* C1: every routeQuery call of a session of any of the four filters has made
\* exactly one call of the downstream routeQuery, so the downstream has got
\* the messages handed to the session, each once and in their order.
C1_RequestsForwarded ==
    [i \in 1..Len(down) |-> down[i].id] = [i \in 1..calls.rq |-> i]

\* An inactive logger session has forwarded what it was given.
C1_Witness ==
    /\ filter = "qla" /\ life = "open"
    /\ ~ sess.active
    /\ calls.rq = MaxCalls
    /\ Len(down) = MaxCalls
    /\ last.op = "routeQuery" /\ last.is_sql

====
